---- MODULE Spec2Model ----
(***************************************************************************)
(* The three notebooks of the Spark course as state machines.  A kernel    *)
(* runs the code cells of one notebook in order; a cell is one action.  A  *)
(* cell that raises is abandoned and the next cell is run, where a name    *)
(* the abandoned cell should have assigned is undefined.  The state is the *)
(* kernel's namespace (the DataFrame variables), the files written, what   *)
(* was printed, the tracking server's runs, and the log of the statements *)
(* that ran or raised.                                                     *)
(*                                                                         *)
(* A DataFrame is a list of column names and a bag (multiset) of rows; a   *)
(* row is a tuple of values aligned with the columns.  A value is either   *)
(* NULL or Some(x).  The engine's row order is unspecified, so rows are    *)
(* not a sequence.                                                         *)
(***************************************************************************)
EXTENDS Integers, Sequences, FiniteSets, Bags, TLC

VARIABLES
    nb,        \* the notebook the kernel runs
    pc,        \* the position of the next code cell
    input,     \* the data literals and data files of the notebook
    hash,      \* the engine's hash of a key value
    ns,        \* the DataFrame variables of the kernel
    files,     \* the Parquet files written
    cached,    \* the DataFrames marked for caching
    layout,    \* the partitioning of a repartitioned DataFrame
    shown,     \* the DataFrames printed with show()
    produced,  \* the DataFrames assigned from a transformation
    consumed,  \* the DataFrames a transformation has read
    step,      \* the position inside the run block of the training cell
    py,        \* the other Python variables of the kernel
    mlflow,    \* the tracking client and server: active runs, runs, registry
    trace      \* the statements run so far, and whether each raised

vars == <<nb, pc, input, hash, ns, files, cached, layout, shown, produced, consumed,
          step, py, mlflow, trace>>

(***************************************************************************)
(* Bounds of the model.                                                    *)
(***************************************************************************)
MaxRows == 2

(***************************************************************************)
(* Values: nullable cells, three-valued booleans.                          *)
(***************************************************************************)
NULL == <<>>

Some(x) == <<x>>

IsNull(v) == Len(v) = 0

Get(v) == v[1]

\* Column.isNull(): never null itself.
isNull(v) == Some(IsNull(v))

\* Column == Column: null when either side is null.
ColEq(a, b) == IF IsNull(a) \/ IsNull(b) THEN NULL ELSE Some(a = b)

\* Column > Column on integers: null when either side is null.
ColGt(a, b) == IF IsNull(a) \/ IsNull(b) THEN NULL ELSE Some(Get(a) > Get(b))

\* Column | Column: Kleene disjunction.
ColOr(a, b) ==
    IF a = Some(TRUE) \/ b = Some(TRUE) THEN Some(TRUE)
    ELSE IF IsNull(a) \/ IsNull(b) THEN NULL
    ELSE Some(FALSE)

\* when(cond, v).otherwise(w): v where cond is true, w where it is false or null.
WhenOtherwise(cond, v, w) == IF cond = Some(TRUE) THEN v ELSE w

(***************************************************************************)
(* Bags of rows.                                                           *)
(***************************************************************************)
Range(s) == {s[i] : i \in DOMAIN s}

SeqToBag(s) == [e \in Range(s) |-> Cardinality({i \in DOMAIN s : s[i] = e})]

SeqsUpTo(S, n) == UNION {[1..k -> S] : k \in 0..n}

BagsUpTo(S, n) == {SeqToBag(s) : s \in SeqsUpTo(S, n)}

RECURSIVE SumFn(_, _)
SumFn(f, S) ==
    IF S = {} THEN 0
    ELSE LET x == CHOOSE y \in S : TRUE IN f[x] + SumFn(f, S \ {x})

\* Every row r of B replaced by the rows of G(r), B[r] times over.
FlatMap(G(_), B) ==
    LET out == UNION {BagToSet(G(r)) : r \in BagToSet(B)}
    IN  [o \in out |->
            SumFn([r \in BagToSet(B) |-> B[r] * CopiesIn(o, G(r))], BagToSet(B))]

One(r) == SetToBag({r})

(***************************************************************************)
(* DataFrames.                                                             *)
(***************************************************************************)
DataFrame(cols, rows) == [columns |-> cols, rows |-> rows]

NoFrame == DataFrame(<<>>, EmptyBag)

HasColumn(df, c) == \E i \in DOMAIN df.columns : df.columns[i] = c

ColIndex(df, c) == CHOOSE i \in DOMAIN df.columns : df.columns[i] = c

\* col(c) evaluated on a row of df.
col(df, r, c) == r[ColIndex(df, c)]

count(df) == BagCardinality(df.rows)

\* df.withColumn(c, e): replaces the column c when it exists, else appends it.
withColumn(df, c, E(_)) ==
    IF HasColumn(df, c)
    THEN DataFrame(df.columns,
            FlatMap(LAMBDA r : One([r EXCEPT ![ColIndex(df, c)] = E(r)]), df.rows))
    ELSE DataFrame(Append(df.columns, c),
            FlatMap(LAMBDA r : One(Append(r, E(r))), df.rows))

\* df.filter(cond): the rows where cond is true (not false, not null).
filter(df, P(_)) ==
    DataFrame(df.columns,
        FlatMap(LAMBDA r : IF P(r) = Some(TRUE) THEN One(r) ELSE EmptyBag, df.rows))

RemoveAt(s, i) == SubSeq(s, 1, i - 1) \o SubSeq(s, i + 1, Len(s))

\* df.drop(c): no-op when the column does not exist.
drop(df, c) ==
    IF HasColumn(df, c)
    THEN DataFrame(RemoveAt(df.columns, ColIndex(df, c)),
            FlatMap(LAMBDA r : One(RemoveAt(r, ColIndex(df, c))), df.rows))
    ELSE df

\* df.withColumnRenamed(old, new)
withColumnRenamed(df, old, new) ==
    IF HasColumn(df, old)
    THEN DataFrame([df.columns EXCEPT ![ColIndex(df, old)] = new], df.rows)
    ELSE df

\* explode_outer in the place of explode: a row with a null element is kept
\* for an empty or a null array.
ExplodeRowOuter(r, arr) ==
    IF IsNull(arr) \/ Len(Get(arr)) = 0 THEN One(Append(r, NULL))
    ELSE SeqToBag([j \in DOMAIN Get(arr) |-> Append(r, Some(Get(arr)[j]))])

\* The rows the generator explode(array) makes of one row: one per element,
\* none for an empty or a null array.
ExplodeRow(r, arr) ==
    IF IsNull(arr) THEN EmptyBag
    ELSE SeqToBag([j \in DOMAIN Get(arr) |-> Append(r, Some(Get(arr)[j]))])

\* df.withColumn(new, explode(col(arrayCol)))
withColumnExplode(df, new, arrayCol) ==
    DataFrame(Append(df.columns, new),
        FlatMap(LAMBDA r : ExplodeRow(r, col(df, r, arrayCol)), df.rows))

\* The right rows whose key is the key of l, a null key equal to a null key.
MatchingNullSafe(l, li, right, ri) ==
    FlatMap(LAMBDA r : IF l[li] = r[ri] THEN One(r) ELSE EmptyBag, right.rows)

\* The right rows whose key equals the key of the left row l.
Matching(l, li, right, ri) ==
    FlatMap(LAMBDA r : IF ColEq(l[li], r[ri]) = Some(TRUE) THEN One(r) ELSE EmptyBag,
            right.rows)

NullRow(df) == [i \in DOMAIN df.columns |-> NULL]

\* A join whose left and full outer forms add a null-filled row for every left
\* row, matched or not.
joinPadsEveryRow(left, right, lcol, rcol, how) ==
    LET li == ColIndex(left, lcol)
        ri == ColIndex(right, rcol)
        matched ==
            FlatMap(LAMBDA l :
                        FlatMap(LAMBDA r : One(l \o r), Matching(l, li, right, ri)),
                    left.rows)
        leftOnly == FlatMap(LAMBDA l : One(l \o NullRow(right)), left.rows)
        rightOnly ==
            FlatMap(LAMBDA r :
                        IF \A l \in BagToSet(left.rows) : ColEq(l[li], r[ri]) # Some(TRUE)
                        THEN One(NullRow(left) \o r) ELSE EmptyBag,
                    right.rows)
        keepLeft == how \in {"left", "left_outer", "outer"}
        keepRight == how \in {"right", "outer"}
    IN  DataFrame(left.columns \o right.columns,
            matched (+) (IF keepLeft THEN leftOnly ELSE EmptyBag)
                    (+) (IF keepRight THEN rightOnly ELSE EmptyBag))

\* A join that returns the matching pairs whatever the join type.
joinDropsUnmatched(left, right, lcol, rcol, how) ==
    LET li == ColIndex(left, lcol)
        ri == ColIndex(right, rcol)
    IN  DataFrame(left.columns \o right.columns,
            FlatMap(LAMBDA l :
                        FlatMap(LAMBDA r : One(l \o r), Matching(l, li, right, ri)),
                    left.rows))

\* left.join(right, left[lcol] == right[rcol], how)
join(left, right, lcol, rcol, how) ==
    LET li == ColIndex(left, lcol)
        ri == ColIndex(right, rcol)
        matched ==
            FlatMap(LAMBDA l :
                        FlatMap(LAMBDA r : One(l \o r), Matching(l, li, right, ri)),
                    left.rows)
        leftOnly ==
            FlatMap(LAMBDA l :
                        IF Matching(l, li, right, ri) = EmptyBag
                        THEN One(l \o NullRow(right)) ELSE EmptyBag,
                    left.rows)
        rightOnly ==
            FlatMap(LAMBDA r :
                        IF \A l \in BagToSet(left.rows) : ColEq(l[li], r[ri]) # Some(TRUE)
                        THEN One(NullRow(left) \o r) ELSE EmptyBag,
                    right.rows)
        keepLeft == how \in {"left", "left_outer", "outer"}
        keepRight == how \in {"right", "outer"}
    IN  DataFrame(left.columns \o right.columns,
            matched (+) (IF keepLeft THEN leftOnly ELSE EmptyBag)
                    (+) (IF keepRight THEN rightOnly ELSE EmptyBag))

\* sum(c) over the rows of a group: nulls are skipped, null when all are null.
SumColumn(df, rowsOfGroup, c) ==
    LET ci == ColIndex(df, c)
        nonNull == {r \in rowsOfGroup : ~IsNull(r[ci])}
    IN  IF nonNull = {} THEN NULL
        ELSE Some(SumFn([r \in nonNull |-> df.rows[r] * Get(r[ci])], nonNull))

\* df.groupBy(key).sum(c): one row per distinct key (null is a key of its own).
groupBySum(df, key, c, outName) ==
    LET ki == ColIndex(df, key)
        keys == {r[ki] : r \in BagToSet(df.rows)}
        group(k) == {r \in BagToSet(df.rows) : r[ki] = k}
    IN  DataFrame(<<key, outName>>,
            SetToBag({<<k, SumColumn(df, group(k), c)>> : k \in keys}))

(***************************************************************************)
(* Text: a string the code parses is a sequence of characters.             *)
(***************************************************************************)
Digits == <<"0", "1", "2", "3", "4", "5", "6", "7", "8", "9">>

IsDigit(ch) == ch \in Range(Digits)

DigitVal(ch) == (CHOOSE i \in DOMAIN Digits : Digits[i] = ch) - 1

RECURSIVE Num(_)
Num(s) == IF Len(s) = 0 THEN 0 ELSE Num(SubSeq(s, 1, Len(s) - 1)) * 10 + DigitVal(s[Len(s)])

RECURSIVE Trim(_)
Trim(s) ==
    IF Len(s) = 0 THEN s
    ELSE IF s[1] = " " THEN Trim(Tail(s))
    ELSE IF s[Len(s)] = " " THEN Trim(SubSeq(s, 1, Len(s) - 1))
    ELSE s

\* cast(IntegerType()) of a string: blanks trimmed, an optional sign, digits;
\* null for a null and for any other text.
CastInt(v) ==
    IF IsNull(v) THEN NULL
    ELSE LET s == Trim(Get(v))
             neg == Len(s) > 0 /\ s[1] = "-"
             body == IF neg THEN Tail(s) ELSE s
         IN  IF Len(body) > 0 /\ \A i \in DOMAIN body : IsDigit(body[i])
             THEN Some(IF neg THEN 0 - Num(body) ELSE Num(body))
             ELSE NULL

(***************************************************************************)
(* The input literals of the notebooks, drawn from bounded sets.           *)
(***************************************************************************)
customer_schema == <<"customer_id", "name", "location", "phone_numbers">>

PhoneArrays ==
    {NULL, Some(<<>>), Some(<<"1234567890">>), Some(<<"1234567890", "0987654321">>),
     Some(<<"1234567890", "1234567890">>)}

Locations == {Some("NY"), Some("CA"), Some("TX"), Some("FL"), Some("ZZ"), NULL}

CustomerIds == {Some("C001"), Some("C002"), NULL}

\* Customer records that differ in their phone numbers.
CustomerRowsByPhones ==
    {<<id, Some("Alice"), Some("NY"), ph>> : id \in {Some("C001"), Some("C002")},
                                             ph \in PhoneArrays}

\* Customer records that differ in their location.
CustomerRowsByLocation ==
    {<<Some("C001"), Some("Alice"), loc, Some(<<"1234567890">>)>> : loc \in Locations}

\* Customer records that differ in their key.
CustomerRowsByKey ==
    {<<id, Some("Alice"), Some("NY"), Some(<<"1234567890">>)>> : id \in CustomerIds}

\* The first and the third customer of the notebook's customer_data.
SampleCustomers ==
    SeqToBag(<< <<Some("C001"), Some("Alice"), Some("NY"),
                  Some(<<"1234567890", "0987654321">>)>>,
                <<Some("C003"), Some("Charlie"), Some("TX"), Some(<<>>)>> >>)

call_records_header == <<"caller_id", "receiver_id", "duration", "status">>

DurationTexts == {Some(<<"5">>), Some(<<"0">>), Some(<<"-", "3">>), Some(<<"x">>), NULL}

CallRows ==
    {<<caller, Some("C002"), d, Some("Connected")>> :
        caller \in {Some("C001"), Some("C003"), NULL}, d \in DurationTexts}

\* The first and the fifth line of the notebook's call_records_data.
SampleCalls ==
    SeqToBag(<< <<Some("C001"), Some("C002"), Some(<<"5">>), Some("Connected")>>,
                <<Some("C002"), Some("C001"), Some(<<"0">>), Some("Failed")>> >>)

nested_schema == <<"network_id", "details", "locations">>

NetworkRows ==
    {<<id, Some(<<"4G", "100Mbps">>), locs>> :
        id \in {Some("N001"), Some("N002")},
        locs \in {NULL, Some(<<>>), Some(<<"NY", "CA">>), Some(<<"NY", "NY">>)}}

\* The first record of the notebook's nested_json_data.
SampleNetworks ==
    SeqToBag(<< <<Some("N001"), Some(<<"4G", "100Mbps">>), Some(<<"NY", "CA">>)>> >>)

practice_schema == <<"customer_id", "name", "location", "phone_numbers", "age", "plan">>

PracticeRows ==
    {<<Some("C001"), Some("Alice"), loc, ph, Some(30), plan>> :
        loc \in {Some("NY"), Some("CA")},
        ph \in {Some(<<>>), Some(<<"1234567890">>)},
        plan \in {Some("Premium"), Some("Basic")}}

\* The second record of the notebook's customer_data_processed.
SamplePractice ==
    SeqToBag(<< <<Some("C002"), Some("Bob"), Some("CA"), Some(<<"1234509876">>),
                  Some(25), Some("Basic")>> >>)

Lab3AInput(c, k, n, p) ==
    [customer_data |-> c, call_records_data |-> k, nested_json_data |-> n,
     customer_data_processed |-> p]

\* The inputs of the first notebook: one literal varies at a time, and the
\* customers' keys vary together with the call records they are joined with.
Lab3AInputs ==
    {Lab3AInput(c, SampleCalls, SampleNetworks, SamplePractice) :
        c \in BagsUpTo(CustomerRowsByPhones, MaxRows)
              \cup BagsUpTo(CustomerRowsByLocation, MaxRows)}
    \cup {Lab3AInput(c, k, SampleNetworks, SamplePractice) :
            c \in BagsUpTo(CustomerRowsByKey, MaxRows), k \in BagsUpTo(CallRows, MaxRows)}
    \cup {Lab3AInput(SampleCustomers, SampleCalls, n, SamplePractice) :
            n \in BagsUpTo(NetworkRows, MaxRows)}
    \cup {Lab3AInput(SampleCustomers, SampleCalls, SampleNetworks, p) :
            p \in BagsUpTo(PracticeRows, MaxRows)}

(***************************************************************************)
(* The kernel: its namespace, and a cell's bookkeeping.                    *)
(***************************************************************************)
\* The position after the last code cell of a notebook.
LastCell(n) == IF n = "lab3a" THEN 17 ELSE IF n = "joins" THEN 24 ELSE 15

Lab3ANames ==
    {"customer_df", "customer_parquet_df", "call_records_df", "customer_df_cleaned",
     "customer_parquet_df_cleaned", "valid_calls_df", "exploded_customer_df",
     "exploded_customer_parquet_df", "enriched_customer_df",
     "enriched_customer_parquet_df", "total_call_duration_df", "final_df",
     "final_parquet_df", "parquet_df", "parquet_df2", "nested_json_df",
     "exploded_network_df", "customer_plan_region_df"}

Paths ==
    {"customer_data.parquet", "telecom_data_final.parquet",
     "telecom_data_final_parquet.parquet"}

\* A name is defined once a DataFrame, which has columns, is assigned to it.
Defined(name) == ns[name] # NoFrame

\* The DataFrame variables the cell at position k of notebook n reads.
Reads(n, k) ==
    IF n = "lab3a" THEN
        CASE k = 2 -> {"customer_df"}
          [] k = 4 -> {"customer_df", "customer_parquet_df"}
          [] k = 5 -> {"call_records_df"}
          [] k = 6 -> {"customer_df_cleaned", "customer_parquet_df_cleaned"}
          [] k = 7 -> {"customer_df_cleaned", "customer_parquet_df_cleaned"}
          [] k = 8 -> {"valid_calls_df"}
          [] k = 9 -> {"enriched_customer_df", "enriched_customer_parquet_df",
                       "total_call_duration_df"}
          [] k = 10 -> {"final_df", "final_parquet_df"}
          [] k = 12 -> {"nested_json_df"}
          [] k \in 14..16 -> {"customer_df"}
          [] OTHER -> {}
    ELSE IF n = "joins" THEN
        CASE k \in 3..6 -> {"customer_df", "call_df"}
          [] k \in 7..9 -> {"call_df"}
          [] k \in 10..12 -> {"customer_df", "call_df"}
          [] k = 13 -> {"partitioned_customer_df", "partitioned_call_df"}
          [] k \in 16..17 -> {"order_df", "product_df"}
          [] k = 18 -> {"inner_join_df"}
          [] k = 19 -> {"order_df"}
          [] k \in 20..22 -> {"order_df", "product_df"}
          [] k = 23 -> {"partitioned_product_df", "partitioned_order_df"}
          [] OTHER -> {}
    ELSE {}

\* The cell at position k of notebook n is the next to run, and the names it
\* reads are defined.
Cell(n, k) == nb = n /\ pc = k /\ \A x \in Reads(n, k) : Defined(x)

\* The statement at the current position has run; failed says that it raised.
Ran(failed) ==
    trace' = Append(trace, [cell |-> pc, step |-> step, raised |-> failed])

\* The cells that raised.
Raised(k) == \E i \in DOMAIN trace : trace[i].cell = k /\ trace[i].raised

\* The cell has run to its end.
Advance ==
    /\ pc' = pc + 1
    /\ Ran(FALSE)
    /\ UNCHANGED <<nb, input, hash, cached, layout, step, py, mlflow>>

\* An exception handler that runs the raising cell again.
RaiseAndRetry ==
    /\ Ran(TRUE)
    /\ UNCHANGED <<nb, pc, input, hash, ns, files, cached, layout, shown, produced,
                   consumed, step, py, mlflow>>

\* The cell raised at its first statement: nothing is assigned, the exception
\* leaves the cell and the next cell is the next to run.
Raise ==
    /\ pc' = pc + 1
    /\ Ran(TRUE)
    /\ UNCHANGED <<nb, input, hash, ns, files, cached, layout, shown, produced,
                   consumed, step, py, mlflow>>

\* A cell that reads a name no cell has assigned raises a NameError.
NameErrorCell ==
    /\ \E x \in Reads(nb, pc) : ~Defined(x)
    /\ pc < LastCell(nb)
    /\ Raise

\* df.show() of the named DataFrames.
\* A cell that prints nothing.
ShowNothing(names) == shown

Show(names) == shown \cup names

\* A Parquet path holds a schema and the part files the writers have left.
NoFile == [schema |-> <<>>, parts |-> <<>>]

NoFiles == [f \in Paths |-> NoFile]

\* What an earlier run of the notebook's write steps has left at the paths.
StaleCustomers == SeqToBag(<< <<Some("C009"), Some("Zed"), Some("TX"), NULL>> >>)

StaleFiles == [f \in Paths |-> [schema |-> customer_schema, parts |-> <<StaleCustomers>>]]

\* df.write.mode("append").parquet(path): a part file beside those at the path.
WriteParquetAppend(fs, path, df) ==
    [fs EXCEPT ![path] = [schema |-> df.columns, parts |-> Append(fs[path].parts, df.rows)]]

\* df.write.mode("overwrite").parquet(path): what is at the path is deleted,
\* then the schema and the rows are written as a part file.
WriteParquet(fs, path, df) ==
    [fs EXCEPT ![path] = [schema |-> df.columns, parts |-> <<df.rows>>]]

\* The rows of all part files.
RECURSIVE RowsOfParts(_)
RowsOfParts(parts) ==
    IF Len(parts) = 0 THEN EmptyBag ELSE Head(parts) (+) RowsOfParts(Tail(parts))

\* spark.read.parquet(path): the schema and the rows of every part file.
ReadParquet(fs, path) == DataFrame(fs[path].schema, RowsOfParts(fs[path].parts))

(***************************************************************************)
(* Notebook 1: data processing and transformation (Lab 3A).                *)
(***************************************************************************)
\* customer_df = spark.read.json(customer_data, schema=customer_schema)
LoadCustomers ==
    /\ Cell("lab3a", 1)
    /\ ns' = [ns EXCEPT !["customer_df"] = DataFrame(customer_schema, input.customer_data)]
    /\ shown' = Show({"customer_df"})
    /\ UNCHANGED <<files, produced, consumed>>
    /\ Advance

\* customer_df written to Parquet and read back as customer_parquet_df.
ParquetCustomers ==
    /\ Cell("lab3a", 2)
    /\ files' = WriteParquet(files, "customer_data.parquet", ns["customer_df"])
    /\ ns' = [ns EXCEPT !["customer_parquet_df"] =
                            ReadParquet(files', "customer_data.parquet")]
    /\ shown' = Show({"customer_parquet_df"})
    /\ UNCHANGED <<produced, consumed>>
    /\ Advance

\* call_records_df read from CSV with a header, duration cast to an integer.
LoadCalls ==
    /\ Cell("lab3a", 3)
    /\ LET csv == DataFrame(call_records_header, input.call_records_data)
       IN  ns' = [ns EXCEPT !["call_records_df"] =
                    withColumn(csv, "duration", LAMBDA r : CastInt(col(csv, r, "duration")))]
    /\ shown' = Show({"call_records_df"})
    /\ UNCHANGED <<files, produced, consumed>>
    /\ Advance

\* col("phone_numbers") == lit(""): an array compared with a string.  Where the
\* engine resolves the comparison no array equals the string.
ArrayEqString(arr, str) == IF IsNull(arr) THEN NULL ELSE Some(FALSE)

\* when(isNull | isNull | (phone_numbers == ""), None).otherwise(phone_numbers)
CleanPhoneNumbers(pn) ==
    WhenOtherwise(ColOr(ColOr(isNull(pn), isNull(pn)), ArrayEqString(pn, "")), NULL, pn)

CleanFrame(df) ==
    withColumn(df, "phone_numbers", LAMBDA r : CleanPhoneNumbers(col(df, r, "phone_numbers")))

\* Handling missing or empty values.  The engine may also reject the
\* comparison of an array with a string when it analyses the expression:
\* the cell then raises before anything is assigned.
CleanCustomers ==
    /\ Cell("lab3a", 4)
    /\ \/ /\ ns' = [ns EXCEPT
                      !["customer_df_cleaned"] = CleanFrame(ns["customer_df"]),
                      !["customer_parquet_df_cleaned"] = CleanFrame(ns["customer_parquet_df"])]
          /\ shown' = Show({"customer_df_cleaned", "customer_parquet_df_cleaned"})
          /\ produced' = produced \cup {"customer_df_cleaned", "customer_parquet_df_cleaned"}
          /\ UNCHANGED <<files, consumed>>
          /\ Advance
       \/ Raise

\* As RemoveInvalid, with duration >= 0.
RemoveInvalidKeepsZero(df) ==
    filter(df, LAMBDA r : Some(~IsNull(col(df, r, "duration")) /\ Get(col(df, r, "duration")) >= 0))

\* call_records_df.filter(col("duration") > 0)
RemoveInvalid(df) == filter(df, LAMBDA r : ColGt(col(df, r, "duration"), Some(0)))

RemoveInvalidCalls ==
    /\ Cell("lab3a", 5)
    /\ ns' = [ns EXCEPT !["valid_calls_df"] = RemoveInvalid(ns["call_records_df"])]
    /\ shown' = Show({"valid_calls_df"})
    /\ produced' = produced \cup {"valid_calls_df"}
    /\ UNCHANGED <<files, consumed>>
    /\ Advance

\* Exploding phone_numbers into phone_number.
ExplodeCustomers ==
    /\ Cell("lab3a", 6)
    /\ ns' = [ns EXCEPT
                !["exploded_customer_df"] =
                    withColumnExplode(ns["customer_df_cleaned"], "phone_number", "phone_numbers"),
                !["exploded_customer_parquet_df"] =
                    withColumnExplode(ns["customer_parquet_df_cleaned"], "phone_number",
                                      "phone_numbers")]
    /\ shown' = Show({"exploded_customer_df", "exploded_customer_parquet_df"})
    /\ produced' = produced \cup {"exploded_customer_df", "exploded_customer_parquet_df"}
    /\ consumed' = consumed \cup {"customer_df_cleaned", "customer_parquet_df_cleaned"}
    /\ UNCHANGED files
    /\ Advance

\* The four rules without the otherwise: null where no rule matches.
region_mapping_without_otherwise(location) ==
    WhenOtherwise(ColEq(location, Some("NY")), Some("North-East"),
    WhenOtherwise(ColEq(location, Some("CA")), Some("West"),
    WhenOtherwise(ColEq(location, Some("TX")), Some("South"),
    WhenOtherwise(ColEq(location, Some("FL")), Some("South-East"),
                  NULL))))

\* when(location == "NY", ...).when(...).otherwise("Unknown")
region_mapping_expr(location) ==
    WhenOtherwise(ColEq(location, Some("NY")), Some("North-East"),
    WhenOtherwise(ColEq(location, Some("CA")), Some("West"),
    WhenOtherwise(ColEq(location, Some("TX")), Some("South"),
    WhenOtherwise(ColEq(location, Some("FL")), Some("South-East"),
                  Some("Unknown")))))

\* The region added to the exploded rows in the place of the given rows.
AddRegionToExploded(df) ==
    LET exploded == withColumnExplode(df, "phone_number", "phone_numbers")
    IN  withColumn(exploded, "region",
                   LAMBDA r : region_mapping_expr(col(exploded, r, "location")))

\* df.withColumn("region", region_mapping_expr)
AddRegion(df) ==
    withColumn(df, "region", LAMBDA r : region_mapping_expr(col(df, r, "location")))

\* Adding a region based on location.
EnrichCustomers ==
    /\ Cell("lab3a", 7)
    /\ ns' = [ns EXCEPT
                !["enriched_customer_df"] = AddRegion(ns["customer_df_cleaned"]),
                !["enriched_customer_parquet_df"] = AddRegion(ns["customer_parquet_df_cleaned"])]
    /\ shown' = Show({"enriched_customer_df", "enriched_customer_parquet_df"})
    /\ produced' = produced \cup {"enriched_customer_df", "enriched_customer_parquet_df"}
    /\ consumed' = consumed \cup {"customer_df_cleaned", "customer_parquet_df_cleaned"}
    /\ UNCHANGED files
    /\ Advance

\* valid_calls_df.groupBy("caller_id").sum("duration"), renamed total_duration.
TotalCallDuration ==
    /\ Cell("lab3a", 8)
    /\ ns' = [ns EXCEPT !["total_call_duration_df"] =
                withColumnRenamed(
                    groupBySum(ns["valid_calls_df"], "caller_id", "duration", "sum(duration)"),
                    "sum(duration)", "total_duration")]
    /\ shown' = Show({"total_call_duration_df"})
    /\ produced' = produced \cup {"total_call_duration_df"}
    /\ consumed' = consumed \cup {"valid_calls_df"}
    /\ UNCHANGED files
    /\ Advance

\* As JoinDurations, with an inner join.
JoinDurationsInner(customers, durations) ==
    drop(join(customers, durations, "customer_id", "caller_id", "inner"), "caller_id")

\* customers.join(durations, customer_id == caller_id, "left_outer").drop("caller_id")
JoinDurations(customers, durations) ==
    drop(join(customers, durations, "customer_id", "caller_id", "left_outer"), "caller_id")

\* when(total_duration.isNull(), lit(0)).otherwise(total_duration)
ZeroIfNull(df) ==
    withColumn(df, "total_duration",
        LAMBDA r : WhenOtherwise(isNull(col(df, r, "total_duration")), Some(0),
                                 col(df, r, "total_duration")))

\* Joining customer data with total call durations.
JoinCustomersWithDurations ==
    /\ Cell("lab3a", 9)
    /\ ns' = [ns EXCEPT
                !["final_df"] =
                    ZeroIfNull(JoinDurations(ns["enriched_customer_df"],
                                             ns["total_call_duration_df"])),
                !["final_parquet_df"] =
                    ZeroIfNull(JoinDurations(ns["enriched_customer_parquet_df"],
                                             ns["total_call_duration_df"]))]
    /\ shown' = Show({"final_df", "final_parquet_df"})
    /\ produced' = produced \cup {"final_df", "final_parquet_df"}
    /\ consumed' = consumed \cup {"enriched_customer_df", "enriched_customer_parquet_df",
                                  "total_call_duration_df"}
    /\ UNCHANGED files
    /\ Advance

\* Writing final_df and final_parquet_df to Parquet and reading them back.
ParquetFinal ==
    /\ Cell("lab3a", 10)
    /\ files' = WriteParquet(
                    WriteParquet(files, "telecom_data_final.parquet", ns["final_df"]),
                    "telecom_data_final_parquet.parquet", ns["final_parquet_df"])
    /\ ns' = [ns EXCEPT
                !["parquet_df"] = ReadParquet(files', "telecom_data_final.parquet"),
                !["parquet_df2"] = ReadParquet(files', "telecom_data_final_parquet.parquet")]
    /\ shown' = Show({"parquet_df", "parquet_df2"})
    /\ UNCHANGED <<produced, consumed>>
    /\ Advance

\* nested_json_df = spark.read.json(nested_json_data, schema=nested_schema)
LoadNetworks ==
    /\ Cell("lab3a", 11)
    /\ ns' = [ns EXCEPT !["nested_json_df"] =
                            DataFrame(nested_schema, input.nested_json_data)]
    /\ shown' = Show({"nested_json_df"})
    /\ UNCHANGED <<files, produced, consumed>>
    /\ Advance

\* nested_json_df.withColumn("location", explode(col("locations"))).drop("locations")
ExplodeNetworks ==
    /\ Cell("lab3a", 12)
    /\ ns' = [ns EXCEPT !["exploded_network_df"] =
                drop(withColumnExplode(ns["nested_json_df"], "location", "locations"),
                     "locations")]
    /\ shown' = Show({"exploded_network_df"})
    /\ produced' = produced \cup {"exploded_network_df"}
    /\ UNCHANGED <<files, consumed>>
    /\ Advance

\* Practice: customer_df = spark.createDataFrame(customer_data_processed, schema)
LoadPractice ==
    /\ Cell("lab3a", 13)
    /\ ns' = [ns EXCEPT !["customer_df"] =
                            DataFrame(practice_schema, input.customer_data_processed)]
    /\ UNCHANGED <<files, shown, produced, consumed>>
    /\ Advance

\* Practice: customer_df = customer_df.withColumn("region", region_mapping_expr)
PracticeRegion ==
    /\ Cell("lab3a", 14)
    /\ ns' = [ns EXCEPT !["customer_df"] = AddRegion(ns["customer_df"])]
    /\ shown' = Show({"customer_df"})
    /\ produced' = produced \cup {"customer_df"}
    /\ UNCHANGED <<files, consumed>>
    /\ Advance

\* Practice: exploded_customer_df = customer_df.withColumn("phone_number", explode(...))
PracticeExplode ==
    /\ Cell("lab3a", 15)
    /\ ns' = [ns EXCEPT !["exploded_customer_df"] =
                withColumnExplode(ns["customer_df"], "phone_number", "phone_numbers")]
    /\ shown' = Show({"exploded_customer_df"})
    /\ produced' = produced \cup {"exploded_customer_df"}
    /\ consumed' = consumed \cup {"customer_df"}
    /\ UNCHANGED files
    /\ Advance

\* The count of the exploded rows: phone numbers in the place of customers.
groupByCountOfExploded(df, k1, k2) ==
    LET ex == withColumnExplode(df, "phone_number", "phone_numbers")
        i1 == ColIndex(ex, k1)
        i2 == ColIndex(ex, k2)
        keys == {<<r[i1], r[i2]>> : r \in BagToSet(ex.rows)}
        group(k) == {r \in BagToSet(ex.rows) : <<r[i1], r[i2]>> = k}
    IN  DataFrame(<<k1, k2, "count">>,
            SetToBag({<<k[1], k[2], Some(SumFn([r \in group(k) |-> ex.rows[r]], group(k)))>> :
                        k \in keys}))

\* df.groupBy(k1, k2).count(): one row per distinct pair of keys.
groupByCount(df, k1, k2) ==
    LET i1 == ColIndex(df, k1)
        i2 == ColIndex(df, k2)
        keys == {<<r[i1], r[i2]>> : r \in BagToSet(df.rows)}
        group(k) == {r \in BagToSet(df.rows) : <<r[i1], r[i2]>> = k}
    IN  DataFrame(<<k1, k2, "count">>,
            SetToBag({<<k[1], k[2], Some(SumFn([r \in group(k) |-> df.rows[r]], group(k)))>> :
                        k \in keys}))

\* Practice: customer_plan_region_df = customer_df.groupBy("plan", "region").count()
PracticeAggregate ==
    /\ Cell("lab3a", 16)
    /\ ns' = [ns EXCEPT !["customer_plan_region_df"] =
                            groupByCount(ns["customer_df"], "plan", "region")]
    /\ shown' = Show({"customer_plan_region_df"})
    /\ produced' = produced \cup {"customer_plan_region_df"}
    /\ consumed' = consumed \cup {"customer_df"}
    /\ UNCHANGED files
    /\ Advance

NextLab3A ==
    \/ LoadCustomers
    \/ ParquetCustomers
    \/ LoadCalls
    \/ CleanCustomers
    \/ RemoveInvalidCalls
    \/ ExplodeCustomers
    \/ EnrichCustomers
    \/ TotalCallDuration
    \/ JoinCustomersWithDurations
    \/ ParquetFinal
    \/ LoadNetworks
    \/ ExplodeNetworks
    \/ LoadPractice
    \/ PracticeRegion
    \/ PracticeExplode
    \/ PracticeAggregate

(***************************************************************************)
(* Notebook 2: advanced joins, aggregations and optimizations.             *)
(***************************************************************************)
schema_customers == <<"customer_id", "name", "location">>

schema_calls == <<"caller_id", "receiver_id", "duration", "status">>

schema_products == <<"product_id", "product_name", "price">>

schema_orders == <<"order_id", "customer_id", "product_id", "quantity">>

JoinCustomerRows ==
    {<<id, Some("Alice"), loc>> : id \in CustomerIds, loc \in {Some("NY"), Some("CA")}}

JoinCallRows ==
    {<<caller, Some("C002"), d, Some("Connected")>> :
        caller \in {Some("C001"), Some("C003"), NULL}, d \in {Some(0), Some(5)}}

ProductRows ==
    {<<id, Some("Laptop"), price>> : id \in {Some("P001"), Some("P002"), NULL},
                                     price \in {Some(1200)}}

OrderRows ==
    {<<Some("O001"), Some("C001"), id, q>> : id \in {Some("P001"), Some("P003"), NULL},
                                             q \in {Some(1), Some(2)}}

\* The first customer and the first and sixth call of the notebook's data.
SampleJoinCustomers == SeqToBag(<< <<Some("C001"), Some("Alice"), Some("NY")>> >>)

SampleJoinCalls ==
    SeqToBag(<< <<Some("C001"), Some("C002"), Some(5), Some("Connected")>>,
                <<Some("C001"), Some("C003"), Some(0), Some("Failed")>> >>)

\* The first product and the first and fifth order of the notebook's data.
SampleProducts == SeqToBag(<< <<Some("P001"), Some("Laptop"), Some(1200)>> >>)

SampleOrders ==
    SeqToBag(<< <<Some("O001"), Some("C001"), Some("P001"), Some(2)>>,
                <<Some("O005"), Some("C002"), Some("P001"), Some(1)>> >>)

\* The customers and the call records of the notebook.
data_customers ==
    SeqToBag(<< <<Some("C001"), Some("Alice"), Some("NY")>>,
                <<Some("C002"), Some("Bob"), Some("CA")>>,
                <<Some("C003"), Some("Charlie"), Some("TX")>>,
                <<Some("C004"), Some("David"), Some("FL")>>,
                <<Some("C005"), Some("Eve"), Some("NY")>> >>)

data_calls ==
    SeqToBag(<< <<Some("C001"), Some("C002"), Some(5), Some("Connected")>>,
                <<Some("C002"), Some("C003"), Some(15), Some("Connected")>>,
                <<Some("C003"), Some("C004"), Some(7), Some("Dropped")>>,
                <<Some("C004"), Some("C005"), Some(10), Some("Connected")>>,
                <<Some("C005"), Some("C001"), Some(12), Some("Connected")>>,
                <<Some("C001"), Some("C003"), Some(0), Some("Failed")>>,
                <<Some("C002"), Some("C004"), Some(20), Some("Connected")>> >>)

JoinsInput(c, k, p, o) ==
    [data_customers |-> c, data_calls |-> k, data_products |-> p, data_orders |-> o]

\* The inputs of the second notebook: the customers and calls vary together,
\* and so do the products and orders; the notebook's own customers and calls
\* are one of the inputs.
JoinsInputs ==
    {JoinsInput(c, k, SampleProducts, SampleOrders) :
        c \in BagsUpTo(JoinCustomerRows, MaxRows), k \in BagsUpTo(JoinCallRows, MaxRows)}
    \cup {JoinsInput(SampleJoinCustomers, SampleJoinCalls, p, o) :
            p \in BagsUpTo(ProductRows, MaxRows), o \in BagsUpTo(OrderRows, MaxRows)}
    \cup {JoinsInput(data_customers, data_calls, SampleProducts, SampleOrders)}

\* The key values the sample data of the second notebook is partitioned by.
SampleKeys == {Some("C001"), Some("NY"), Some("P001")}

\* The hash the engine partitions by is a function of the key value alone; its
\* values matter only modulo the partition counts.
HashSpan == 4

HashFunctions == [SampleKeys -> 0..(HashSpan - 1)]

ZeroHash == [k \in SampleKeys |-> 0]

HashOf(v) == IF v \in DOMAIN hash THEN hash[v] ELSE 0

JoinsNames ==
    {"customer_df", "call_df", "inner_join_df", "left_join_df", "right_join_df",
     "full_outer_join_df", "call_duration_agg", "avg_call_duration", "call_count_agg",
     "broadcast_join_df", "partitioned_customer_df", "partitioned_call_df",
     "partitioned_join_df", "product_df", "order_df", "revenue_per_product",
     "average_order_quantity", "partitioned_product_df", "partitioned_order_df"}

NoLayout == <<>>

\* customer_df = spark.createDataFrame(data_customers, schema=schema_customers)
LoadJoinCustomers ==
    /\ Cell("joins", 1)
    /\ ns' = [ns EXCEPT !["customer_df"] = DataFrame(schema_customers, input.data_customers)]
    /\ shown' = Show({"customer_df"})
    /\ UNCHANGED <<files, produced, consumed>>
    /\ Advance

\* call_df = spark.createDataFrame(data_calls, schema=schema_calls)
LoadJoinCalls ==
    /\ Cell("joins", 2)
    /\ ns' = [ns EXCEPT !["call_df"] = DataFrame(schema_calls, input.data_calls)]
    /\ shown' = Show({"call_df"})
    /\ UNCHANGED <<files, produced, consumed>>
    /\ Advance

\* The cell that joins left and right into target, and shows the result.
JoinCell(n, k, target, left, right, lcol, rcol, how) ==
    /\ Cell(n, k)
    /\ ns' = [ns EXCEPT ![target] = join(ns[left], ns[right], lcol, rcol, how)]
    /\ shown' = Show({target})
    /\ produced' = produced \cup {target}
    /\ consumed' = consumed \cup {left, right}
    /\ UNCHANGED files
    /\ Advance

\* inner_join_df = customer_df.join(call_df, customer_id == caller_id, "inner")
InnerJoin ==
    JoinCell("joins", 3, "inner_join_df", "customer_df", "call_df",
             "customer_id", "caller_id", "inner")

\* left_join_df = customer_df.join(call_df, customer_id == caller_id, "left")
LeftJoin ==
    JoinCell("joins", 4, "left_join_df", "customer_df", "call_df",
             "customer_id", "caller_id", "left")

\* right_join_df = customer_df.join(call_df, customer_id == caller_id, "right")
RightJoin ==
    JoinCell("joins", 5, "right_join_df", "customer_df", "call_df",
             "customer_id", "caller_id", "right")

\* full_outer_join_df = customer_df.join(call_df, customer_id == caller_id, "outer")
FullOuterJoin ==
    JoinCell("joins", 6, "full_outer_join_df", "customer_df", "call_df",
             "customer_id", "caller_id", "outer")

\* df.groupBy(key).agg(count(c)): the rows of the group whose c is not null.
groupByCountOf(df, key, c, outName) ==
    LET ki == ColIndex(df, key)
        ci == ColIndex(df, c)
        keys == {r[ki] : r \in BagToSet(df.rows)}
        group(k) == {r \in BagToSet(df.rows) : r[ki] = k /\ ~IsNull(r[ci])}
    IN  DataFrame(<<key, outName>>,
            SetToBag({<<k, Some(SumFn([r \in group(k) |-> df.rows[r]], group(k)))>> :
                        k \in keys}))

\* df.groupBy(key).agg(avg(c)): the sum and the count of the non-null values,
\* kept as the fraction <<sum, count>>.
groupByAvg(df, key, c, outName) ==
    LET sums == groupBySum(df, key, c, outName)
        counts == groupByCountOf(df, key, c, outName)
        countOf(k) == Get((CHOOSE r \in BagToSet(counts.rows) : r[1] = k)[2])
    IN  DataFrame(<<key, outName>>,
            SetToBag({<<r[1], IF IsNull(r[2]) THEN NULL ELSE Some(<<Get(r[2]), countOf(r[1])>>)>> :
                        r \in BagToSet(sums.rows)}))

\* The three aggregations of call_df, each shown in its cell.
AggregateCalls ==
    /\ \/ /\ Cell("joins", 7)
          /\ ns' = [ns EXCEPT !["call_duration_agg"] =
                      groupBySum(ns["call_df"], "caller_id", "duration", "total_duration")]
          /\ shown' = Show({"call_duration_agg"})
          /\ produced' = produced \cup {"call_duration_agg"}
       \/ /\ Cell("joins", 8)
          /\ ns' = [ns EXCEPT !["avg_call_duration"] =
                      groupByAvg(ns["call_df"], "status", "duration", "avg_duration")]
          /\ shown' = Show({"avg_call_duration"})
          /\ produced' = produced \cup {"avg_call_duration"}
       \/ /\ Cell("joins", 9)
          /\ ns' = [ns EXCEPT !["call_count_agg"] =
                      groupByCountOf(ns["call_df"], "caller_id", "caller_id", "call_count")]
          /\ shown' = Show({"call_count_agg"})
          /\ produced' = produced \cup {"call_count_agg"}
    /\ UNCHANGED <<files, consumed>>
    /\ Advance

\* left.cache(); right.cache(); left.count(); right.count(): the DataFrames are
\* marked and materialized, the variables keep their values.
CacheCell(n, k, left, right) ==
    /\ Cell(n, k)
    /\ cached' = cached \cup {left, right}
    /\ pc' = pc + 1
    /\ Ran(FALSE)
    /\ UNCHANGED <<nb, input, hash, ns, files, layout, shown, produced, consumed,
                   step, py, mlflow>>

CacheDataFrames == CacheCell("joins", 10, "customer_df", "call_df")

\* A broadcast hash join that keeps one build row per key.
BroadcastHashJoinOneRowPerKey(stream, build, scol, bcol) ==
    LET si == ColIndex(stream, scol)
        bi == ColIndex(build, bcol)
        keys == {b[bi] : b \in BagToSet(build.rows)} \ {NULL}
        table == [k \in keys |-> One(CHOOSE b \in BagToSet(build.rows) : b[bi] = k)]
    IN  DataFrame(stream.columns \o build.columns,
            FlatMap(LAMBDA s :
                        IF s[si] \in keys
                        THEN FlatMap(LAMBDA b : One(s \o b), table[s[si]])
                        ELSE EmptyBag,
                    stream.rows))

\* stream.join(broadcast(build), stream[scol] == build[bcol], "inner"): the
\* build side is hashed by its key and sent whole to every task; each stream
\* row probes the table with its key.  A null key is not in the table.
BroadcastHashJoin(stream, build, scol, bcol) ==
    LET si == ColIndex(stream, scol)
        bi == ColIndex(build, bcol)
        keys == {b[bi] : b \in BagToSet(build.rows)} \ {NULL}
        table == [k \in keys |->
                    FlatMap(LAMBDA b : IF b[bi] = k THEN One(b) ELSE EmptyBag, build.rows)]
    IN  DataFrame(stream.columns \o build.columns,
            FlatMap(LAMBDA s :
                        IF s[si] \in keys
                        THEN FlatMap(LAMBDA b : One(s \o b), table[s[si]])
                        ELSE EmptyBag,
                    stream.rows))

BroadcastCell(n, k, stream, build, scol, bcol) ==
    /\ Cell(n, k)
    /\ ns' = [ns EXCEPT !["broadcast_join_df"] =
                            BroadcastHashJoin(ns[stream], ns[build], scol, bcol)]
    /\ shown' = Show({"broadcast_join_df"})
    /\ produced' = produced \cup {"broadcast_join_df"}
    /\ consumed' = consumed \cup {stream, build}
    /\ UNCHANGED files
    /\ Advance

\* broadcast_join_df = call_df.join(broadcast(customer_df), caller_id == customer_id, "inner")
BroadcastJoin ==
    BroadcastCell("joins", 11, "call_df", "customer_df", "caller_id", "customer_id")

\* df.repartition(n, c): the same rows, hash-partitioned into n by column c.
repartition(df, n, c) == df

Partitioning(n, c) == <<n, c>>

\* The index of the partition that holds row r of the DataFrame variable name.
PartitionOf(name, r) ==
    HashOf(col(ns[name], r, layout[name][2])) % layout[name][1]

\* target1 = df1.repartition(n, c1); target2 = df2.repartition(n, c2): not shown.
RepartitionCell(nbk, k, target1, df1, c1, target2, df2, c2, n) ==
    /\ Cell(nbk, k)
    /\ ns' = [ns EXCEPT ![target1] = repartition(ns[df1], n, c1),
                        ![target2] = repartition(ns[df2], n, c2)]
    /\ layout' = [layout EXCEPT ![target1] = Partitioning(n, c1),
                                ![target2] = Partitioning(n, c2)]
    /\ produced' = produced \cup {target1, target2}
    /\ consumed' = consumed \cup {df1, df2}
    /\ pc' = pc + 1
    /\ Ran(FALSE)
    /\ UNCHANGED <<nb, input, hash, files, cached, shown, step, py, mlflow>>

\* partitioned_customer_df = customer_df.repartition(4, "location")
\* partitioned_call_df = call_df.repartition(4, "caller_id")
RepartitionCustomersAndCalls ==
    RepartitionCell("joins", 12, "partitioned_customer_df", "customer_df", "location",
                    "partitioned_call_df", "call_df", "caller_id", 4)

\* partitioned_join_df = partitioned_customer_df.join(partitioned_call_df, ..., "inner")
PartitionedJoin ==
    JoinCell("joins", 13, "partitioned_join_df", "partitioned_customer_df",
             "partitioned_call_df", "customer_id", "caller_id", "inner")

\* Practice: product_df and order_df created from their literals.
LoadProductsAndOrders ==
    /\ \/ /\ Cell("joins", 14)
          /\ ns' = [ns EXCEPT !["product_df"] =
                                  DataFrame(schema_products, input.data_products)]
          /\ shown' = Show({"product_df"})
       \/ /\ Cell("joins", 15)
          /\ ns' = [ns EXCEPT !["order_df"] = DataFrame(schema_orders, input.data_orders)]
          /\ shown' = Show({"order_df"})
    /\ UNCHANGED <<files, produced, consumed>>
    /\ Advance

\* inner_join_df = order_df.join(product_df, product_id == product_id, "inner")
InnerJoinOrders ==
    JoinCell("joins", 16, "inner_join_df", "order_df", "product_df",
             "product_id", "product_id", "inner")

\* left_join_df = order_df.join(product_df, product_id == product_id, "left")
LeftJoinOrders ==
    JoinCell("joins", 17, "left_join_df", "order_df", "product_df",
             "product_id", "product_id", "left")

\* col("price") * col("quantity"): null when either is null.
ColTimes(a, b) == IF IsNull(a) \/ IsNull(b) THEN NULL ELSE Some(Get(a) * Get(b))

\* inner_join_df.groupBy("product_name").agg(sum(price * quantity))
RevenuePerProduct ==
    /\ Cell("joins", 18)
    /\ LET j == ns["inner_join_df"]
           priced == withColumn(j, "price * quantity",
                        LAMBDA r : ColTimes(col(j, r, "price"), col(j, r, "quantity")))
       IN  ns' = [ns EXCEPT !["revenue_per_product"] =
                    groupBySum(priced, "product_name", "price * quantity", "total_revenue")]
    /\ shown' = Show({"revenue_per_product"})
    /\ produced' = produced \cup {"revenue_per_product"}
    /\ consumed' = consumed \cup {"inner_join_df"}
    /\ UNCHANGED files
    /\ Advance

\* average_order_quantity = order_df.agg(avg("quantity")): one row.
AverageOrderQuantity ==
    /\ Cell("joins", 19)
    /\ LET o == ns["order_df"]
           qs == {r \in BagToSet(o.rows) : ~IsNull(col(o, r, "quantity"))}
           total == SumFn([r \in qs |-> o.rows[r] * Get(col(o, r, "quantity"))], qs)
           n == SumFn([r \in qs |-> o.rows[r]], qs)
       IN  ns' = [ns EXCEPT !["average_order_quantity"] =
                    DataFrame(<<"avg_quantity">>,
                              One(<<IF n = 0 THEN NULL ELSE Some(<<total, n>>)>>))]
    /\ shown' = Show({"average_order_quantity"})
    /\ produced' = produced \cup {"average_order_quantity"}
    /\ UNCHANGED <<files, consumed>>
    /\ Advance

CacheProductsAndOrders == CacheCell("joins", 20, "product_df", "order_df")

\* broadcast_join_df = order_df.join(broadcast(product_df), product_id == product_id, "inner")
BroadcastJoinOrders ==
    BroadcastCell("joins", 21, "order_df", "product_df", "product_id", "product_id")

\* partitioned_product_df = product_df.repartition(2, "product_id")
\* partitioned_order_df = order_df.repartition(2, "product_id")
RepartitionProductsAndOrders ==
    RepartitionCell("joins", 22, "partitioned_product_df", "product_df", "product_id",
                    "partitioned_order_df", "order_df", "product_id", 2)

\* partitioned_join_df = partitioned_product_df.join(partitioned_order_df, ..., "inner")
PartitionedJoinOrders ==
    JoinCell("joins", 23, "partitioned_join_df", "partitioned_product_df",
             "partitioned_order_df", "product_id", "product_id", "inner")

NextJoins ==
    \/ LoadJoinCustomers
    \/ LoadJoinCalls
    \/ InnerJoin
    \/ LeftJoin
    \/ RightJoin
    \/ FullOuterJoin
    \/ AggregateCalls
    \/ CacheDataFrames
    \/ BroadcastJoin
    \/ RepartitionCustomersAndCalls
    \/ PartitionedJoin
    \/ LoadProductsAndOrders
    \/ InnerJoinOrders
    \/ LeftJoinOrders
    \/ RevenuePerProduct
    \/ AverageOrderQuantity
    \/ CacheProductsAndOrders
    \/ BroadcastJoinOrders
    \/ RepartitionProductsAndOrders
    \/ PartitionedJoinOrders

(***************************************************************************)
(* Notebook 3: MLflow and Spark integration (Lab 8).                       *)
(***************************************************************************)
\* A decimal number m / 10^e without trailing zeros in its fraction.
RECURSIVE Decimal(_, _)
Decimal(m, e) == IF e > 0 /\ m % 10 = 0 THEN Decimal(m \div 10, e - 1) ELSE <<m, e>>

\* The number a text denotes: an optional sign, digits, at most one point;
\* null for any other text.
ParseDecimal(s) ==
    LET neg == Len(s) > 0 /\ s[1] = "-"
        body == IF neg THEN Tail(s) ELSE s
        points == {i \in DOMAIN body : body[i] = "."}
        digits == [i \in 1..(Len(body) - Cardinality(points)) |->
                      body[IF \E p \in points : p <= i THEN i + 1 ELSE i]]
        frac == IF points = {} THEN 0 ELSE Len(body) - (CHOOSE p \in points : TRUE)
    IN  IF /\ Cardinality(points) <= 1
           /\ Len(digits) > 0
           /\ \A i \in DOMAIN digits : IsDigit(digits[i])
        THEN Some(Decimal(IF neg THEN 0 - Num(digits) ELSE Num(digits), frac))
        ELSE NULL

\* cast("float") of a string: blanks trimmed, then the number the text denotes;
\* null for a null and for a text that is not a number.
CastFloat(v) == IF IsNull(v) THEN NULL ELSE ParseDecimal(Trim(Get(v)))

StartsWith(s, p) == Len(s) >= Len(p) /\ SubSeq(s, 1, Len(p)) = p

\* Every occurrence of the literal pattern replaced, scanning left to right.
RECURSIVE ReplaceAll(_, _, _)
ReplaceAll(s, pattern, replacement) ==
    IF Len(s) = 0 THEN s
    ELSE IF StartsWith(s, pattern)
         THEN replacement \o ReplaceAll(SubSeq(s, Len(pattern) + 1, Len(s)), pattern, replacement)
         ELSE <<Head(s)>> \o ReplaceAll(Tail(s), pattern, replacement)

\* regexp_replace(col, pattern, replacement) for a pattern without
\* metacharacters, as all five patterns of the notebook are; null for a null.
regexp_replace(v, pattern, replacement) ==
    IF IsNull(v) THEN NULL ELSE Some(ReplaceAll(Get(v), pattern, replacement))

\* The columns of "Quality of Service 5G.csv" that the notebook names.
qos_header ==
    <<"Application_Type", "Signal_Strength", "Latency", "Required_Bandwidth",
      "Allocated_Bandwidth", "Resource_Allocation">>

feature_columns ==
    <<"Signal_Strength", "Latency", "Required_Bandwidth", "Allocated_Bandwidth",
      "Resource_Allocation">>

\* A record of the file: every measurement is a number followed by its unit.
SampleQos ==
    <<Some("Video_Call"), Some(<<"-", "7", "5", " ", "d", "B", "m">>), Some(<<"3", "0", " ", "m", "s">>), Some(<<"1", "0", " ", "M", "b", "p", "s">>), Some(<<"1", "5", " ", "M", "b", "p", "s">>), Some(<<"7", "0", "%">>)>>

\* The texts a measurement column is given: none, another unit, a fraction.
QosTexts(c) ==
    CASE c = 2 -> {NULL, Some(<<"-", "7", "5", " ", "d", "B">>), Some(<<"-", "8", "0", ".", "5", " ", "d", "B", "m">>)}
      [] c = 3 -> {NULL, Some(<<"2", " ", "s">>), Some(<<"1", ".", "5", " ", "m", "s">>)}
      [] c = 4 -> {NULL, Some(<<"1", "0", "0", " ", "K", "b", "p", "s">>), Some(<<"0", ".", "5", " ", "M", "b", "p", "s">>)}
      [] c = 5 -> {NULL, Some(<<"1", "2", "0", " ", "K", "b", "p", "s">>), Some(<<"1", ".", "5", " ", "M", "b", "p", "s">>)}
      [] c = 6 -> {NULL, Some(<<"7", "0", " ", "%">>), Some(<<"8", "5", "%">>)}

\* The sample record with one column replaced.
QosRows ==
    {SampleQos}
    \cup {[SampleQos EXCEPT ![1] = a] : a \in {NULL, Some("Streaming")}}
    \cup UNION {{[SampleQos EXCEPT ![c] = t] : t \in QosTexts(c)} : c \in 2..6}

Lab8Inputs == {[qos_csv |-> b] : b \in BagsUpTo(QosRows, MaxRows)}

Lab8Names == {"df", "train_data", "test_data", "predictions", "new_predictions"}

\* df.withColumn(c, regexp_replace(col(c), unit, "").cast("float"))
StripAndCast(df, c, unit) ==
    withColumn(df, c, LAMBDA r : CastFloat(regexp_replace(col(df, r, c), unit, <<>>)))

\* The five conversions of the preprocessing step.
Preprocess(df) ==
    StripAndCast(
        StripAndCast(
            StripAndCast(
                StripAndCast(
                    StripAndCast(df, "Signal_Strength", <<" ", "d", "B", "m">>),
                    "Latency", <<" ", "m", "s">>),
                "Required_Bandwidth", <<" ", "M", "b", "p", "s">>),
            "Allocated_Bandwidth", <<" ", "M", "b", "p", "s">>),
        "Resource_Allocation", <<"%">>)

\* The Python variables of the kernel before any cell has run.
NoVariables ==
    [pipeline |-> NULL, model |-> NULL, accuracy |-> NULL, model_uri |-> NULL,
     registered_model_name |-> NULL, loaded_model |-> NULL]

\* The tracking client before it is configured, and a server without runs.
NoTracking ==
    [tracking_uri |-> NULL, experiment |-> NULL, active |-> <<>>, runs |-> <<>>,
     registry |-> {}]

\* A run ended without being taken from the active runs.
EndRunStillActive(status) ==
    [mlflow EXCEPT !.runs[Head(mlflow.active)].status = status]

\* mlflow.end_run(status): the innermost active run is ended with the status.
EndRun(status) ==
    [mlflow EXCEPT !.runs[Head(mlflow.active)].status = status,
                   !.active = Tail(mlflow.active)]

\* A cell of Lab 8 has run to its end; Python variables and runs may change.
AdvanceLab8 ==
    /\ pc' = pc + 1
    /\ Ran(FALSE)
    /\ UNCHANGED <<nb, input, hash, files, cached, layout, step>>

\* A statement of the run block has run; the next statement is the next to run.
NextStatement ==
    /\ step' = step + 1
    /\ Ran(FALSE)
    /\ UNCHANGED <<nb, pc, input, hash, files, cached, layout>>

\* The statement at position k of the run block of the training cell.
Statement(k) == nb = "lab8" /\ pc = 9 /\ step = k

\* !pip install pyspark mlflow
InstallLibraries ==
    /\ Cell("lab8", 1)
    /\ UNCHANGED <<ns, files, shown, produced, consumed>>
    /\ Advance

\* spark = SparkSession.builder ... getOrCreate()
InitSparkSession ==
    /\ Cell("lab8", 2)
    /\ UNCHANGED <<ns, files, shown, produced, consumed>>
    /\ Advance

\* df = spark.read.csv(file_path, header=True, inferSchema=True), the five
\* conversions, df.show(5); the read raises when the file is not at file_path.
LoadAndPreprocess ==
    /\ Cell("lab8", 3)
    /\ \/ /\ ns' = [ns EXCEPT !["df"] = Preprocess(DataFrame(qos_header, input.qos_csv))]
          /\ shown' = Show({"df"})
          /\ produced' = produced \cup {"df"}
          /\ UNCHANGED <<files, consumed>>
          /\ Advance
       \/ Raise

\* The imports, indexer, assembler, lr and pipeline = Pipeline(stages=[...]).
DefinePipeline ==
    /\ nb = "lab8" /\ pc \in 4..7
    /\ py' = [py EXCEPT !.pipeline =
                  IF pc = 7 THEN Some(<<"indexer", "assembler", "lr">>) ELSE @]
    /\ UNCHANGED <<ns, shown, produced, consumed, mlflow>>
    /\ AdvanceLab8

\* mlflow.set_tracking_uri(...); mlflow.set_experiment(experiment_name): the
\* second call asks the server, and raises when the server does not answer.
SetupMLflow ==
    /\ Cell("lab8", 8)
    /\ \/ /\ mlflow' = [mlflow EXCEPT !.tracking_uri = Some("http://localhost:5000"),
                                      !.experiment = Some("5G_Quality_of_Service_Experiment")]
          /\ Ran(FALSE)
       \/ /\ mlflow' = [mlflow EXCEPT !.tracking_uri = Some("http://localhost:5000")]
          /\ Ran(TRUE)
    /\ pc' = pc + 1
    /\ UNCHANGED <<nb, input, hash, ns, files, cached, layout, shown, produced,
                   consumed, step, py>>

\* with mlflow.start_run(): a run is created and becomes the active run; the
\* call raises when the server does not answer, and the block is not entered.
StartRun ==
    /\ Statement(0)
    /\ \/ /\ mlflow' = [mlflow EXCEPT
                 !.runs = Append(@, [experiment |-> mlflow.experiment,
                                     status |-> "RUNNING", artifacts |-> {},
                                     metrics |-> {}, params |-> {}]),
                 !.active = <<Len(mlflow.runs) + 1>> \o @]
          /\ UNCHANGED <<ns, shown, produced, consumed, py>>
          /\ NextStatement
       \/ Raise

\* A statement of the run block raises: the block is left, which ends the run
\* as FAILED, and the exception leaves the cell.
StatementRaises ==
    /\ nb = "lab8" /\ pc = 9 /\ step \in 1..8
    /\ mlflow' = EndRun("FAILED")
    /\ pc' = pc + 1
    /\ step' = 0
    /\ Ran(TRUE)
    /\ UNCHANGED <<nb, input, hash, ns, files, cached, layout, shown, produced,
                   consumed, py>>

\* train_data, test_data = df.randomSplit([0.8, 0.2], seed=42): every row goes
\* to one of the two; which one depends on the engine's partitions.
SplitData ==
    /\ Statement(1)
    /\ Defined("df")
    /\ \E train \in SubBag(ns["df"].rows) :
          ns' = [ns EXCEPT !["train_data"] = DataFrame(ns["df"].columns, train),
                           !["test_data"] = DataFrame(ns["df"].columns,
                                                      ns["df"].rows (-) train)]
    /\ produced' = produced \cup {"train_data", "test_data"}
    /\ consumed' = consumed \cup {"df"}
    /\ UNCHANGED <<shown, py, mlflow>>
    /\ NextStatement

\* The labels in the order StringIndexer breaks ties between equal frequencies.
LabelOrder == <<"Streaming", "Video_Call">>

\* The rows a pipeline stage accepts: no null label and no null feature.
Complete(df) ==
    \A r \in BagToSet(df.rows) :
        /\ ~IsNull(col(df, r, "Application_Type"))
        /\ \A i \in DOMAIN feature_columns : ~IsNull(col(df, r, feature_columns[i]))

\* The index StringIndexer gives each label of the training data: the most
\* frequent label first.
LabelIndex(df) ==
    LET labels == {Get(col(df, r, "Application_Type")) : r \in BagToSet(df.rows)}
        freq(l) == count(filter(df, LAMBDA r : ColEq(col(df, r, "Application_Type"), Some(l))))
        pos(l) == CHOOSE i \in DOMAIN LabelOrder : LabelOrder[i] = l
    IN  [l \in labels |->
            Cardinality({m \in labels : \/ freq(m) > freq(l)
                                        \/ freq(m) = freq(l) /\ pos(m) < pos(l)})]

\* model = pipeline.fit(train_data): raises on a null label or feature and on
\* empty training data.  The fitted classifier is not determined by the
\* notebook; it is one that answers with one of the indexed labels.
FitPipeline ==
    /\ Statement(2)
    /\ Defined("train_data") /\ ~IsNull(py.pipeline)
    /\ count(ns["train_data"]) > 0 /\ Complete(ns["train_data"])
    /\ LET index == LabelIndex(ns["train_data"])
       IN  \E p \in {index[l] : l \in DOMAIN index} :
              py' = [py EXCEPT !.model = Some([index |-> index, predicts |-> p])]
    /\ UNCHANGED <<ns, shown, produced, consumed, mlflow>>
    /\ NextStatement

\* mlflow.spark.log_model(model, "spark_model"): stored under the active run.
LogModel ==
    /\ Statement(3)
    /\ ~IsNull(py.model)
    /\ mlflow' = [mlflow EXCEPT !.runs[Head(mlflow.active)].artifacts =
                                    @ \cup {<<"spark_model", Get(py.model)>>}]
    /\ UNCHANGED <<ns, shown, produced, consumed, py>>
    /\ NextStatement

\* model.transform(df): the label index and the prediction are appended; a
\* label the indexer has not seen has no index.
transform(model, df) ==
    DataFrame(df.columns \o <<"Application_Type_Indexed", "prediction">>,
              FlatMap(LAMBDA r :
                          LET l == col(df, r, "Application_Type")
                          IN  One(r \o <<IF ~IsNull(l) /\ Get(l) \in DOMAIN model.index
                                         THEN Some(model.index[Get(l)]) ELSE NULL,
                                         Some(model.predicts)>>),
                      df.rows))

\* predictions = model.transform(test_data)
TransformTestData ==
    /\ Statement(4)
    /\ Defined("test_data") /\ ~IsNull(py.model)
    /\ ns' = [ns EXCEPT !["predictions"] = transform(Get(py.model), ns["test_data"])]
    /\ produced' = produced \cup {"predictions"}
    /\ consumed' = consumed \cup {"test_data"}
    /\ UNCHANGED <<shown, py, mlflow>>
    /\ NextStatement

\* accuracy = evaluator.evaluate(predictions): correct predictions out of all;
\* raises on a null feature and on a label without index.
Evaluate ==
    /\ Statement(5)
    /\ Defined("predictions")
    /\ Complete(ns["predictions"])
    /\ \A r \in BagToSet(ns["predictions"].rows) :
          ~IsNull(col(ns["predictions"], r, "Application_Type_Indexed"))
    /\ py' = [py EXCEPT !.accuracy =
                 Some(<<count(filter(ns["predictions"], LAMBDA r :
                            ColEq(col(ns["predictions"], r, "Application_Type_Indexed"),
                                  col(ns["predictions"], r, "prediction")))),
                        count(ns["predictions"])>>)]
    /\ UNCHANGED <<ns, shown, produced, consumed, mlflow>>
    /\ NextStatement

\* mlflow.log_metric("accuracy", accuracy)
LogMetric ==
    /\ Statement(6)
    /\ ~IsNull(py.accuracy)
    /\ mlflow' = [mlflow EXCEPT !.runs[Head(mlflow.active)].metrics =
                                    @ \cup {<<"accuracy", Get(py.accuracy)>>}]
    /\ UNCHANGED <<ns, shown, produced, consumed, py>>
    /\ NextStatement

\* mlflow.log_param("model_type", "Logistic Regression")
LogParam ==
    /\ Statement(7)
    /\ mlflow' = [mlflow EXCEPT !.runs[Head(mlflow.active)].params =
                                    @ \cup {<<"model_type", "Logistic Regression">>}]
    /\ UNCHANGED <<ns, shown, produced, consumed, py>>
    /\ NextStatement

\* print(...) and the end of the run block, which ends the run as FINISHED.
LeaveRunBlock ==
    /\ Statement(8)
    /\ ~IsNull(py.accuracy)
    /\ mlflow' = EndRun("FINISHED")
    /\ pc' = pc + 1
    /\ step' = 0
    /\ Ran(FALSE)
    /\ UNCHANGED <<nb, input, hash, ns, files, cached, layout, shown, produced,
                   consumed, py>>

\* model_uri = f"runs:/{mlflow.active_run().info.run_id}/spark_model", then
\* registered_model_name: active_run() is None when no run is active, and the
\* attribute access raises before either name is assigned.
ModelUri ==
    /\ nb = "lab8" /\ pc = 10
    /\ IF mlflow.active = <<>>
       THEN Raise
       ELSE /\ py' = [py EXCEPT
                   !.model_uri = Some(<<"runs", Head(mlflow.active), "spark_model">>),
                   !.registered_model_name = Some("5G_QoS_Logistic_Regression")]
            /\ UNCHANGED <<ns, shown, produced, consumed, mlflow>>
            /\ AdvanceLab8

\* mlflow.register_model(model_uri, registered_model_name): the next version
\* of the name; a NameError when a name was never assigned.
RegisterModel ==
    /\ nb = "lab8" /\ pc = 11
    /\ IF IsNull(py.model_uri) \/ IsNull(py.registered_model_name)
       THEN Raise
       ELSE /\ mlflow' = [mlflow EXCEPT !.registry = @ \cup
                   {[name |-> Get(py.registered_model_name),
                     version |-> 1 + Cardinality({v \in mlflow.registry :
                                     v.name = Get(py.registered_model_name)}),
                     source |-> Get(py.model_uri)]}]
            /\ UNCHANGED <<ns, shown, produced, consumed, py>>
            /\ AdvanceLab8

\* The versions 1 of the registered name.
FirstVersions ==
    {v \in mlflow.registry :
        v.name = Get(py.registered_model_name) /\ v.version = 1}

\* loaded_model = mlflow.spark.load_model(f"models:/{registered_model_name}/1")
LoadModel ==
    /\ nb = "lab8" /\ pc = 12
    /\ IF IsNull(py.registered_model_name) \/ FirstVersions = {}
       THEN Raise
       ELSE /\ LET v == CHOOSE v \in FirstVersions : TRUE
                   stored == {a \in mlflow.runs[v.source[2]].artifacts : a[1] = v.source[3]}
               IN  py' = [py EXCEPT !.loaded_model = Some((CHOOSE a \in stored : TRUE)[2])]
            /\ UNCHANGED <<ns, shown, produced, consumed, mlflow>>
            /\ AdvanceLab8

\* new_predictions = loaded_model.transform(test_data); new_predictions.show(5)
PredictNewData ==
    /\ nb = "lab8" /\ pc = 13
    /\ IF IsNull(py.loaded_model) \/ ~Defined("test_data")
       THEN Raise
       ELSE /\ ns' = [ns EXCEPT !["new_predictions"] =
                          transform(Get(py.loaded_model), ns["test_data"])]
            /\ shown' = Show({"new_predictions"})
            /\ produced' = produced \cup {"new_predictions"}
            /\ consumed' = consumed \cup {"test_data"}
            /\ UNCHANGED <<files, py, mlflow>>
            /\ AdvanceLab8

\* !mlflow ui
StartUI ==
    /\ Cell("lab8", 14)
    /\ UNCHANGED <<ns, files, shown, produced, consumed>>
    /\ Advance

NextLab8 ==
    \/ InstallLibraries
    \/ InitSparkSession
    \/ LoadAndPreprocess
    \/ DefinePipeline
    \/ SetupMLflow
    \/ StartRun
    \/ StatementRaises
    \/ SplitData
    \/ FitPipeline
    \/ LogModel
    \/ TransformTestData
    \/ Evaluate
    \/ LogMetric
    \/ LogParam
    \/ LeaveRunBlock
    \/ ModelUri
    \/ RegisterModel
    \/ LoadModel
    \/ PredictNewData
    \/ StartUI

(***************************************************************************)
(* The specification.                                                      *)
(***************************************************************************)
Names == Lab3ANames \cup JoinsNames \cup Lab8Names

\* A fresh kernel: nothing assigned, nothing written, nothing printed.
FreshKernel ==
    /\ pc = 1
    /\ ns = [n \in Names |-> NoFrame]
    /\ cached = {}
    /\ layout = [n \in Names |-> NoLayout]
    /\ shown = {}
    /\ produced = {}
    /\ consumed = {}
    /\ step = 0
    /\ py = NoVariables
    /\ mlflow = NoTracking
    /\ trace = <<>>

Init ==
    /\ FreshKernel
    /\ \/ nb = "lab3a" /\ input \in Lab3AInputs /\ hash = ZeroHash /\ files = NoFiles
       \/ /\ nb = "lab3a"
          /\ input = Lab3AInput(SampleCustomers, SampleCalls, SampleNetworks, SamplePractice)
          /\ hash = ZeroHash
          /\ files = StaleFiles
       \/ nb = "joins" /\ input \in JoinsInputs /\ hash = ZeroHash /\ files = NoFiles
       \/ nb = "lab8" /\ input \in Lab8Inputs /\ hash = ZeroHash /\ files = NoFiles
       \/ /\ nb = "joins"
          /\ input = JoinsInput(SampleJoinCustomers, SampleJoinCalls, SampleProducts,
                                SampleOrders)
          /\ hash \in HashFunctions
          /\ files = NoFiles

Next == NextLab3A \/ NextJoins \/ NextLab8 \/ NameErrorCell

Spec == Init /\ [][Next]_vars

(***************************************************************************)
(* The claims.                                                             *)
(***************************************************************************)
Front(s) == SubSeq(s, 1, Len(s) - 1)

ArrayLen(arr) == IF IsNull(arr) THEN 0 ELSE Len(Get(arr))

Occurrences(arr, v) ==
    IF IsNull(arr) THEN 0 ELSE Cardinality({j \in DOMAIN Get(arr) : Get(arr)[j] = v})

\* out is the explosion of the array column of in, where Keep(r) are the
\* values of the input row r that the output carries: every output row is a
\* kept input row with one element appended, an input row makes as many
\* output rows as its array has elements (none when it is empty or null), and
\* each element position makes one of them.
IsExplosion(in, out, arrayCol, Keep(_)) ==
    LET inRows == BagToSet(in.rows)
        outRows == BagToSet(out.rows)
        keys == {Keep(r) : r \in inRows}
        owners(k) == {r \in inRows : Keep(r) = k}
        made(k) == {o \in outRows : Front(o) = k}
    IN  /\ \A o \in outRows : Front(o) \in keys /\ ~IsNull(o[Len(o)])
        /\ \A k \in keys :
            /\ SumFn([o \in made(k) |-> out.rows[o]], made(k))
                 = SumFn([r \in owners(k) |->
                            in.rows[r] * ArrayLen(col(in, r, arrayCol))], owners(k))
            /\ \A o \in made(k) :
                 out.rows[o]
                   = SumFn([r \in owners(k) |->
                              in.rows[r] * Occurrences(col(in, r, arrayCol), Get(o[Len(o)]))],
                           owners(k))
            /\ \A r \in owners(k) : \A j \in 1..ArrayLen(col(in, r, arrayCol)) :
                 Append(k, Some(Get(col(in, r, arrayCol))[j])) \in outRows

\* C1: explode makes one row per array element.  For every input row the
\* number of output rows equals the length of its array (zero when the array
\* is empty or null); each output row carries one element position in the new
\* column and copies of the other values of the input row.  This holds for
\* the phone numbers of the customers (in the lab and in the practice part)
\* and for the locations of the network records.
C1_ExplodeOneRowPerElement ==
    nb = "lab3a" =>
        /\ (pc \in 7..15 /\ ~Raised(6)) =>
             /\ ns["exploded_customer_df"].columns
                  = Append(ns["customer_df_cleaned"].columns, "phone_number")
             /\ IsExplosion(ns["customer_df_cleaned"], ns["exploded_customer_df"],
                            "phone_numbers", LAMBDA r : r)
        /\ pc > 12 =>
             /\ ns["exploded_network_df"].columns = <<"network_id", "details", "location">>
             /\ IsExplosion(ns["nested_json_df"], ns["exploded_network_df"],
                            "locations", LAMBDA r : SubSeq(r, 1, 2))
        /\ pc > 15 =>
             /\ ns["exploded_customer_df"].columns
                  = Append(ns["customer_df"].columns, "phone_number")
             /\ IsExplosion(ns["customer_df"], ns["exploded_customer_df"],
                            "phone_numbers", LAMBDA r : r)

\* C1's case: customers with two phone numbers, with none and with a null
\* array have been exploded.
C1_Witness ==
    /\ nb = "lab3a" /\ pc = 7
    /\ \E r \in BagToSet(ns["customer_df_cleaned"].rows) : ArrayLen(r[4]) = 2
    /\ \E r \in BagToSet(ns["customer_df_cleaned"].rows) : IsNull(r[4])
    /\ count(ns["exploded_customer_df"]) = 2

\* C2: the left-outer join of the customers with the total durations keeps
\* every customer exactly once: final_df without its total_duration column is
\* enriched_customer_df, row for row.
C2_LeftJoinKeepsEveryCustomer ==
    (nb = "lab3a" /\ pc > 9 /\ ~Raised(9)) =>
        /\ drop(ns["final_df"], "total_duration") = ns["enriched_customer_df"]
        /\ count(ns["final_df"]) = count(ns["enriched_customer_df"])
        /\ drop(ns["final_parquet_df"], "total_duration") = ns["enriched_customer_parquet_df"]

\* C2's case: a customer with two valid calls and a customer with none were joined.
C2_Witness ==
    /\ nb = "lab3a" /\ pc = 10
    /\ count(ns["valid_calls_df"]) = 2
    /\ count(ns["total_call_duration_df"]) = 1
    /\ \E r \in BagToSet(ns["final_df"].rows) : r[Len(r)] = Some(10)
    /\ \E r \in BagToSet(ns["final_df"].rows) : r[Len(r)] = Some(0)

\* What the cleaning is claimed to do to phone_numbers.
ClaimedCleaning(pn) == IF IsNull(pn) \/ Len(Get(pn)) = 0 THEN NULL ELSE pn

\* C3: after the cleaning, phone_numbers is null whenever the input was null
\* or an empty array, and is the input array otherwise.
C3_EmptyPhoneNumbersBecomeNull ==
    (nb = "lab3a" /\ pc \in 5..13 /\ ~Raised(4)) =>
        ns["customer_df_cleaned"]
          = withColumn(ns["customer_df"], "phone_numbers",
                       LAMBDA r : ClaimedCleaning(r[4]))

\* C4: valid_calls_df holds exactly the records of call_records_df whose
\* duration is greater than 0: none with a duration <= 0 or null remains, and
\* none with a duration > 0 is lost or altered.
C4_OnlyPositiveDurationsRemain ==
    (nb = "lab3a" /\ pc > 5) =>
        LET calls == ns["call_records_df"]
            valid == ns["valid_calls_df"]
        IN  /\ valid.columns = calls.columns
            /\ BagToSet(valid.rows) \subseteq BagToSet(calls.rows)
            /\ \A r \in BagToSet(calls.rows) :
                 CopiesIn(r, valid.rows)
                   = IF ~IsNull(r[3]) /\ Get(r[3]) > 0 THEN calls.rows[r] ELSE 0

\* C4's case: a record with a positive duration was kept and one with a zero,
\* a negative or a null duration was removed.
C4_Witness ==
    /\ nb = "lab3a" /\ pc = 6
    /\ \E r \in BagToSet(ns["call_records_df"].rows) :
         /\ ~IsNull(r[3]) /\ Get(r[3]) > 0
         /\ r \in BagToSet(ns["valid_calls_df"].rows)
    /\ \E r \in BagToSet(ns["call_records_df"].rows) :
         /\ (IsNull(r[3]) \/ Get(r[3]) <= 0)
         /\ r \notin BagToSet(ns["valid_calls_df"].rows)

\* The number a text begins with: the longest beginning of the text that is a
\* number; the rest of the text is its unit.
LeadingNumber(s) ==
    LET ks == {k \in 1..Len(s) : ~IsNull(ParseDecimal(SubSeq(s, 1, k)))}
    IN  IF ks = {} THEN NULL
        ELSE ParseDecimal(SubSeq(s, 1, CHOOSE k \in ks : \A j \in ks : j <= k))

\* The conversion as claimed: the number in front of whatever unit text.
ClaimedConversion(df, c) ==
    withColumn(df, c, LAMBDA r : IF IsNull(col(df, r, c)) THEN NULL
                                 ELSE LeadingNumber(Get(col(df, r, c))))

\* C5: after the preprocessing step of Lab 8, each of Signal_Strength,
\* Latency, Required_Bandwidth, Allocated_Bandwidth and Resource_Allocation
\* holds, for every row with a non-null text '<number><unit text>', the number
\* the text begins with, whatever the unit text is.
C5_EveryUnitTextIsStripped ==
    (nb = "lab8" /\ pc > 3 /\ ~Raised(3)) =>
        ns["df"] =
            ClaimedConversion(ClaimedConversion(ClaimedConversion(ClaimedConversion(
                ClaimedConversion(DataFrame(qos_header, input.qos_csv),
                    "Signal_Strength"), "Latency"), "Required_Bandwidth"),
                "Allocated_Bandwidth"), "Resource_Allocation")

\* The DataFrames a transformation produces that their cell does not show.
NotShown ==
    {"partitioned_customer_df", "partitioned_call_df", "partitioned_product_df",
     "partitioned_order_df", "train_data", "test_data", "predictions"}

\* The DataFrames a transformation produces that a later transformation reads.
Composed ==
    {"customer_df", "customer_df_cleaned", "customer_parquet_df_cleaned",
     "valid_calls_df", "enriched_customer_df", "enriched_customer_parquet_df",
     "total_call_duration_df", "partitioned_customer_df", "partitioned_call_df",
     "partitioned_product_df", "partitioned_order_df", "inner_join_df", "df",
     "test_data"}

Last(s) == s[Len(s)]

\* C7: a step runs at most once; after a step of a cell has raised, no later
\* step of that cell and no earlier cell runs; and a step that raises leaves
\* its cell, assigns no variable, writes no file and shows nothing, registers
\* nothing and changes no run other than by ending the run of the block it
\* leaves as FAILED.
C7_FailuresLeaveTheCell ==
    [][LET e == Last(trace')
       IN  /\ Len(trace') = Len(trace) + 1
           /\ \A i \in DOMAIN trace :
                /\ <<trace[i].cell, trace[i].step>> # <<e.cell, e.step>>
                /\ trace[i].raised => e.cell > trace[i].cell
           /\ e.raised =>
                /\ pc' = e.cell + 1 /\ step' = 0
                /\ ns' = ns /\ py' = py /\ files' = files
                /\ shown' = shown /\ produced' = produced /\ consumed' = consumed
                /\ mlflow'.registry = mlflow.registry
                /\ mlflow'.experiment = mlflow.experiment
                /\ mlflow'.active = IF e.step > 0 THEN Tail(mlflow.active)
                                    ELSE mlflow.active
                /\ mlflow'.runs =
                     IF e.step > 0
                     THEN [mlflow.runs EXCEPT ![Head(mlflow.active)].status = "FAILED"]
                     ELSE mlflow.runs]_vars

\* C7's case: pipeline.fit raised inside the run block; the run is FAILED, no
\* model was assigned or logged, and the later cells have run.
C7_Witness ==
    /\ nb = "lab8" /\ pc = 15
    /\ \E i \in DOMAIN trace :
          trace[i].cell = 9 /\ trace[i].step = 2 /\ trace[i].raised
    /\ Len(mlflow.runs) = 1
    /\ mlflow.runs[1].status = "FAILED"
    /\ mlflow.runs[1].artifacts = {}
    /\ IsNull(py.model)
    /\ Defined("train_data")

\* C8: no step after the cleaning changes customer_df_cleaned or its Parquet
\* twin; once exploded and enriched DataFrames are derived from it, it still
\* has the columns of customer_df, the exploded DataFrame has no region column
\* and the enriched one has no phone_number column; and the cache() and
\* repartition() cells leave customer_df and call_df as they were.
C8_TransformationsLeaveInputsUnchanged ==
    [][/\ (nb = "lab3a" /\ pc \in 5..16 /\ ~Raised(4)) =>
            /\ ns'["customer_df_cleaned"] = ns["customer_df_cleaned"]
            /\ ns'["customer_parquet_df_cleaned"] = ns["customer_parquet_df_cleaned"]
            /\ ns'["customer_df_cleaned"].columns = customer_schema
       /\ (nb = "lab3a" /\ pc \in 7..14 /\ ~Raised(4)) =>
            /\ ~HasColumn(ns'["exploded_customer_df"], "region")
            /\ HasColumn(ns'["exploded_customer_df"], "phone_number")
            /\ ~HasColumn(ns'["enriched_customer_df"], "phone_number")
            /\ HasColumn(ns'["enriched_customer_df"], "region")
       /\ (nb = "joins" /\ pc \in {10, 12}) =>
            /\ ns'["customer_df"] = ns["customer_df"]
            /\ ns'["call_df"] = ns["call_df"]
            /\ ns'["customer_df"] = DataFrame(schema_customers, input.data_customers)
            /\ ns'["call_df"] = DataFrame(schema_calls, input.data_calls)]_vars

\* C8's case: both derivations have read a customer_df_cleaned with a customer
\* of two phone numbers, and the exploded DataFrame has more rows than it.
C8_Witness ==
    /\ nb = "lab3a" /\ pc = 8 /\ ~Raised(4)
    /\ count(ns["exploded_customer_df"]) > count(ns["customer_df_cleaned"])
    /\ count(ns["enriched_customer_df"]) = count(ns["customer_df_cleaned"])
    /\ "customer_df_cleaned" \in consumed

\* The columns of the first n moved behind the others, in every row.
SwapSides(df, n) ==
    DataFrame(SubSeq(df.columns, n + 1, Len(df.columns)) \o SubSeq(df.columns, 1, n),
              FlatMap(LAMBDA r : One(SubSeq(r, n + 1, Len(r)) \o SubSeq(r, 1, n)), df.rows))

\* C9: broadcast_join_df holds the rows of inner_join_df, every row as often:
\* for customers and calls with the call columns in front of the customer
\* columns, for orders and products in the same column order.
C9_BroadcastJoinIsInnerJoin ==
    /\ (nb = "joins" /\ pc \in 12..16) =>
          SwapSides(ns["broadcast_join_df"], Len(schema_calls)) = ns["inner_join_df"]
    /\ (nb = "joins" /\ pc > 21) =>
          ns["broadcast_join_df"] = ns["inner_join_df"]

\* C9's case: the broadcast join of customers and calls has run on a call
\* whose caller is two customer records and on a call without a customer.
C9_Witness ==
    /\ nb = "joins" /\ pc = 12
    /\ count(ns["call_df"]) = 2
    /\ count(ns["customer_df"]) = 2
    /\ count(ns["broadcast_join_df"]) = 2
    /\ Cardinality(BagToSet(ns["broadcast_join_df"].rows)) = 2
    /\ Cardinality({SubSeq(r, 1, Len(schema_calls)) :
                       r \in BagToSet(ns["broadcast_join_df"].rows)}) = 1

\* Both DataFrames are partitioned into the same number of partitions, and
\* every pair of rows with equal keys lies in partitions of the same index.
CoPartitioned(a, acol, b, bcol) ==
    /\ layout[a] # NoLayout /\ layout[b] # NoLayout
    /\ layout[a][1] = layout[b][1]
    /\ \A ra \in BagToSet(ns[a].rows), rb \in BagToSet(ns[b].rows) :
          ColEq(col(ns[a], ra, acol), col(ns[b], rb, bcol)) = Some(TRUE)
              => PartitionOf(a, ra) = PartitionOf(b, rb)

\* C10: before each partitioned join the two inputs have the same partition
\* count, and every customer and call with customer_id = caller_id, and every
\* product and order with equal product_id, lie in partitions of the same
\* index.
C10_JoinInputsAreCoPartitioned ==
    /\ (nb = "joins" /\ pc > 12) =>
          CoPartitioned("partitioned_customer_df", "customer_id",
                        "partitioned_call_df", "caller_id")
    /\ (nb = "joins" /\ pc > 22) =>
          CoPartitioned("partitioned_product_df", "product_id",
                        "partitioned_order_df", "product_id")

\* The runs that something was logged to.
LoggedRuns ==
    {i \in DOMAIN mlflow.runs :
        \/ mlflow.runs[i].artifacts # {}
        \/ mlflow.runs[i].metrics # {}
        \/ mlflow.runs[i].params # {}}

\* C11: log_model, log_metric and log_param are each issued while exactly one
\* run is active and are recorded under that run, so that everything logged
\* lies under one run id; and no run is active outside the run block, whether
\* the block was left at its end or by a statement that raised.
C11_TrackingCallsInsideOneRun ==
    /\ [](nb = "lab8" =>
            /\ Cardinality(LoggedRuns) <= 1
            /\ (pc = 9 /\ step > 0) => Len(mlflow.active) = 1
            /\ ~(pc = 9 /\ step > 0) => mlflow.active = <<>>)
    /\ [][(nb = "lab8" /\ pc = 9 /\ step \in {3, 6, 7} /\ ~Last(trace').raised) =>
            /\ Len(mlflow.active) = 1
            /\ mlflow'.active = mlflow.active
            /\ mlflow'.runs[Head(mlflow.active)] # mlflow.runs[Head(mlflow.active)]
            /\ mlflow.runs[Head(mlflow.active)].status = "RUNNING"
            /\ \A i \in DOMAIN mlflow.runs :
                  i # Head(mlflow.active) => mlflow'.runs[i] = mlflow.runs[i]]_vars

\* C11's case: the run block was left at its end; the model, the metric and
\* the parameter lie under run 1, which is FINISHED, and no run is active.
C11_Witness ==
    /\ nb = "lab8" /\ pc = 10
    /\ mlflow.active = <<>>
    /\ LoggedRuns = {1}
    /\ mlflow.runs[1].status = "FINISHED"
    /\ \E a \in mlflow.runs[1].artifacts : a[1] = "spark_model"
    /\ \E a \in mlflow.runs[1].metrics : a[1] = "accuracy"
    /\ <<"model_type", "Logistic Regression">> \in mlflow.runs[1].params

\* C12: once the training cell has completed and the cell that builds
\* model_uri has run, model_uri names the spark_model artifact of the run the
\* model was logged under; and once the registering cell has run, the registry
\* holds that artifact under the name 5G_QoS_Logistic_Regression.
C12_RegisteredModelIsOfTrainingRun ==
    (nb = "lab8" /\ pc > 10 /\ ~Raised(9)) =>
        \E i \in DOMAIN mlflow.runs :
            /\ \E a \in mlflow.runs[i].artifacts : a[1] = "spark_model"
            /\ py.model_uri = Some(<<"runs", i, "spark_model">>)
            /\ pc > 11 =>
                 \E v \in mlflow.registry :
                     /\ v.name = "5G_QoS_Logistic_Regression"
                     /\ v.source = <<"runs", i, "spark_model">>

\* The region of a location as a table.
RegionTable ==
    [l \in {"NY", "CA", "TX", "FL"} |->
        CASE l = "NY" -> "North-East" [] l = "CA" -> "West"
          [] l = "TX" -> "South" [] l = "FL" -> "South-East"]

RegionOf(location) ==
    IF ~IsNull(location) /\ Get(location) \in DOMAIN RegionTable
    THEN Some(RegionTable[Get(location)])
    ELSE Some("Unknown")

\* Every row of df has the region of its location in its one region column.
HasRegions(df) ==
    /\ Cardinality({i \in DOMAIN df.columns : df.columns[i] = "region"}) = 1
    /\ \A r \in BagToSet(df.rows) :
          /\ col(df, r, "region") = RegionOf(col(df, r, "location"))
          /\ ~IsNull(col(df, r, "region"))
          /\ Get(col(df, r, "region"))
                \in {"North-East", "West", "South", "South-East", "Unknown"}

\* C13: enriched_customer_df, its Parquet twin and the practice customer_df
\* hold every customer once, each with the one region its location decides:
\* NY North-East, CA West, TX South, FL South-East, any other location and a
\* null location Unknown; the region is never null.
C13_EveryCustomerHasOneRegion ==
    /\ (nb = "lab3a" /\ pc > 7 /\ ~Raised(7)) =>
          /\ HasRegions(ns["enriched_customer_df"])
          /\ HasRegions(ns["enriched_customer_parquet_df"])
          /\ drop(ns["enriched_customer_df"], "region") = ns["customer_df_cleaned"]
          /\ drop(ns["enriched_customer_parquet_df"], "region")
                = ns["customer_parquet_df_cleaned"]
    /\ (nb = "lab3a" /\ pc > 14) =>
          /\ HasRegions(ns["customer_df"])
          /\ drop(ns["customer_df"], "region")
                = DataFrame(practice_schema, input.customer_data_processed)

\* C13's case: a customer with a null location and one in another state than
\* the four named were enriched, both as Unknown.
C13_Witness ==
    /\ nb = "lab3a" /\ pc = 8 /\ ~Raised(7)
    /\ \E r \in BagToSet(ns["enriched_customer_df"].rows) :
          /\ IsNull(col(ns["enriched_customer_df"], r, "location"))
          /\ col(ns["enriched_customer_df"], r, "region") = Some("Unknown")
    /\ \E r \in BagToSet(ns["enriched_customer_df"].rows) :
          /\ col(ns["enriched_customer_df"], r, "location") = Some("ZZ")
          /\ col(ns["enriched_customer_df"], r, "region") = Some("Unknown")

\* What a read of the path returns after two writes to it, the second of df.
ReadAfterTwoWrites(path, first, df) ==
    ReadParquet(WriteParquet(WriteParquet(files, path, first), path, df), path)

PlanRegion(df, r) == <<col(df, r, "plan"), col(df, r, "region")>>

\* The number of customers of df with the pair.
CustomersWith(df, pair) ==
    BagCardinality([r \in {x \in BagToSet(df.rows) : PlanRegion(df, x) = pair}
                       |-> df.rows[r]])

\* C15: customer_plan_region_df has the columns plan, region and count and
\* one row for each (plan, region) pair among the customers of customer_df,
\* no other row and no pair twice; the count of a row is the number of
\* customers with its pair, those with an empty phone_numbers among them, and
\* the counts add up to the number of customers.
C15_OneCountPerPlanAndRegion ==
    (nb = "lab3a" /\ pc > 16) =>
        LET customers == ns["customer_df"]
            out == ns["customer_plan_region_df"]
            rows == BagToSet(out.rows)
        IN  /\ out.columns = <<"plan", "region", "count">>
            /\ count(customers) = BagCardinality(input.customer_data_processed)
            /\ {<<r[1], r[2]>> : r \in rows}
                  = {PlanRegion(customers, c) : c \in BagToSet(customers.rows)}
            /\ \A r \in rows :
                  /\ out.rows[r] = 1
                  /\ r[3] = Some(CustomersWith(customers, <<r[1], r[2]>>))
                  /\ \A q \in rows : (q[1] = r[1] /\ q[2] = r[2]) => q = r
            /\ SumFn([r \in rows |-> Get(r[3])], rows) = count(customers)

\* C15's case: two customers with the same plan and region were counted
\* together, one of them with an empty phone_numbers array.
C15_Witness ==
    /\ nb = "lab3a" /\ pc = 17
    /\ \E r \in BagToSet(ns["customer_plan_region_df"].rows) : r[3] = Some(2)
    /\ \E c \in BagToSet(ns["customer_df"].rows) :
          col(ns["customer_df"], c, "phone_numbers") = Some(<<>>)
    /\ Cardinality(BagToSet(ns["customer_df"].rows)) = 2

\* out holds l \o r once for every copy of a left row l and of a right row r
\* with equal non-null keys, and nothing else.
IsInnerJoin(out, left, right, li, ri) ==
    /\ out.columns = left.columns \o right.columns
    /\ \A l \in BagToSet(left.rows), r \in BagToSet(right.rows) :
          CopiesIn(l \o r, out.rows)
              = IF ~IsNull(l[li]) /\ ~IsNull(r[ri]) /\ Get(l[li]) = Get(r[ri])
                THEN left.rows[l] * right.rows[r] ELSE 0
    /\ \A x \in BagToSet(out.rows) :
          \E l \in BagToSet(left.rows), r \in BagToSet(right.rows) : x = l \o r

\* C16: inner_join_df holds exactly one row for every customer and call with
\* customer_id = caller_id and no other row, so that a call of no customer and
\* a customer without a call have no row; likewise for orders and products on
\* product_id.
C16_InnerJoinIsTheMatchingPairs ==
    /\ (nb = "joins" /\ pc \in 4..16) =>
          IsInnerJoin(ns["inner_join_df"], ns["customer_df"], ns["call_df"], 1, 1)
    /\ (nb = "joins" /\ pc > 16) =>
          IsInnerJoin(ns["inner_join_df"], ns["order_df"], ns["product_df"], 3, 1)

\* C16's case: of two customers and two calls one pair has equal keys; the
\* other customer made no call and the other call is of no customer.
C16_Witness ==
    /\ nb = "joins" /\ pc = 4
    /\ Cardinality(BagToSet(ns["customer_df"].rows)) = 2
    /\ Cardinality(BagToSet(ns["call_df"].rows)) = 2
    /\ count(ns["inner_join_df"]) = 1
    /\ Cardinality({r[1] : r \in BagToSet(ns["customer_df"].rows)}) = 2
    /\ Cardinality({r[1] : r \in BagToSet(ns["call_df"].rows)}) = 2

\* Every row of a has a row of b with the same key.
EveryRowMatches(a, ai, b, bi) ==
    \A x \in BagToSet(a.rows) :
        \E y \in BagToSet(b.rows) : ColEq(x[ai], y[bi]) = Some(TRUE)

\* The customer columns and the call columns of a row of a join.
CustomerSide(r) == SubSeq(r, 1, Len(schema_customers))

CallSide(r) == SubSeq(r, Len(schema_customers) + 1, Len(r))

AllNull(s) == \A i \in DOMAIN s : IsNull(s[i])

NullFilled(r) == AllNull(CustomerSide(r)) \/ AllNull(CallSide(r))

\* C17: whenever every customer has a call and every call's caller is a
\* customer, the inner, left, right and full outer joins of customers and
\* calls hold the same rows with the same multiplicities, none of them
\* null-filled; for the notebook's own data the precondition holds and each
\* join has 7 rows.
C17_JoinsAgreeWhenEveryRowMatches ==
    (nb = "joins" /\ pc \in 7..16) =>
        /\ (/\ EveryRowMatches(ns["customer_df"], 1, ns["call_df"], 1)
            /\ EveryRowMatches(ns["call_df"], 1, ns["customer_df"], 1))
           => /\ ns["left_join_df"] = ns["inner_join_df"]
              /\ ns["right_join_df"] = ns["inner_join_df"]
              /\ ns["full_outer_join_df"] = ns["inner_join_df"]
              /\ \A r \in BagToSet(ns["inner_join_df"].rows) : ~NullFilled(r)
        /\ (input.data_customers = data_customers /\ input.data_calls = data_calls)
           => /\ EveryRowMatches(ns["customer_df"], 1, ns["call_df"], 1)
              /\ EveryRowMatches(ns["call_df"], 1, ns["customer_df"], 1)
              /\ count(ns["inner_join_df"]) = 7
              /\ count(ns["full_outer_join_df"]) = 7

\* C17's case: the four joins of the notebook's five customers and seven
\* calls have been computed.
C17_Witness ==
    /\ nb = "joins" /\ pc = 7
    /\ count(ns["customer_df"]) = 5
    /\ count(ns["call_df"]) = 7
    /\ EveryRowMatches(ns["customer_df"], 1, ns["call_df"], 1)
    /\ EveryRowMatches(ns["call_df"], 1, ns["customer_df"], 1)
    /\ count(ns["left_join_df"]) = 7

\* The number of rows of out whose side (customer or call columns) is x.
RowsWithSide(out, Side(_), x) ==
    SumFn([r \in BagToSet(out.rows) |-> IF Side(r) = x THEN out.rows[r] ELSE 0],
          BagToSet(out.rows))

\* out keeps every row of df, as often as df holds it or more.
Keeps(out, Side(_), df) ==
    \A x \in BagToSet(df.rows) : RowsWithSide(out, Side, x) >= df.rows[x]

\* A customer without a call is in out once per copy with null call columns.
UnmatchedCustomersPadded(out) ==
    \A l \in BagToSet(ns["customer_df"].rows) :
        (\A r \in BagToSet(ns["call_df"].rows) : ColEq(l[1], r[1]) # Some(TRUE))
        => /\ CopiesIn(l \o NullRow(ns["call_df"]), out.rows) = ns["customer_df"].rows[l]
           /\ RowsWithSide(out, CustomerSide, l) = ns["customer_df"].rows[l]

\* A call of no customer is in out once per copy with null customer columns.
UnmatchedCallsPadded(out) ==
    \A r \in BagToSet(ns["call_df"].rows) :
        (\A l \in BagToSet(ns["customer_df"].rows) : ColEq(l[1], r[1]) # Some(TRUE))
        => /\ CopiesIn(NullRow(ns["customer_df"]) \o r, out.rows) = ns["call_df"].rows[r]
           /\ RowsWithSide(out, CallSide, r) = ns["call_df"].rows[r]

\* C18: for any customers and calls the rows of the inner join are rows of
\* the left and of the right join, and the rows of these are rows of the full
\* outer join, with multiplicities; the left join keeps every customer, the
\* right join every call and the full outer join both, an unmatched row with
\* the columns of the other side null.
C18_JoinTypesAreOrderedByContainment ==
    (nb = "joins" /\ pc \in 7..16) =>
        LET inner == ns["inner_join_df"]
            left == ns["left_join_df"]
            right == ns["right_join_df"]
            outer == ns["full_outer_join_df"]
        IN  /\ inner.rows \sqsubseteq left.rows
            /\ inner.rows \sqsubseteq right.rows
            /\ left.rows \sqsubseteq outer.rows
            /\ right.rows \sqsubseteq outer.rows
            /\ Keeps(left, CustomerSide, ns["customer_df"])
            /\ Keeps(right, CallSide, ns["call_df"])
            /\ Keeps(outer, CustomerSide, ns["customer_df"])
            /\ Keeps(outer, CallSide, ns["call_df"])
            /\ UnmatchedCustomersPadded(left)
            /\ UnmatchedCustomersPadded(outer)
            /\ UnmatchedCallsPadded(right)
            /\ UnmatchedCallsPadded(outer)

\* C18's case: one customer with a call, one customer without, and one call
\* of no customer, so that the four joins all differ.
C18_Witness ==
    /\ nb = "joins" /\ pc = 7
    /\ count(ns["inner_join_df"]) = 1
    /\ count(ns["left_join_df"]) = 2
    /\ count(ns["right_join_df"]) = 2
    /\ count(ns["full_outer_join_df"]) = 3
    /\ \E r \in BagToSet(ns["left_join_df"].rows) : AllNull(CallSide(r))
    /\ \E r \in BagToSet(ns["right_join_df"].rows) : AllNull(CustomerSide(r))

====
